---- MODULE Spec2Model ----
(***************************************************************************)
(* A model of victor-devops: the workflow gate and transform functions of  *)
(* escape_hatches.py, the compute handlers of handlers.py, the capability  *)
(* configuration of capabilities.py and the tool graph cache of            *)
(* tool_dependencies.py.                                                   *)
(*                                                                         *)
(* Python values are tagged records, so that a gate can meet a value of    *)
(* the wrong type the way the Python code does:                            *)
(*   None, bool, str, number, dict, list.                                  *)
(* Numbers are held in thousandths (0.1 is 100, 1 is 1000), which makes    *)
(* every literal of the code and every comparison exact.                   *)
(***************************************************************************)
EXTENDS Integers, Sequences, FiniteSets, TLC

VARIABLES
  ctx,        \* the workflow context: key -> value
  gate,       \* the gate or transform called last ("none" before the first call)
  verdict,    \* what that call returned, or the exception it raised
  handler,    \* the handler the engine invoked ("none" before it does)
  bin,        \* that handler's runtime / binary
  node,       \* the compute node it was invoked for
  pc,         \* where the invocation stands: idle, workspace_select and main
              \* (awaiting the executor), returned, raised
  tool_calls, \* TerraformHandler's local tool_calls
  calls,      \* the commands the invocation handed to tool_registry.execute
  replies,    \* what the executor answered to each, in order
  result,     \* the NodeResult returned to the engine
  raised,     \* the exception that reached the engine
  orchestrator, \* the orchestrator the capabilities configure: its config
              \* service (or none) and its attributes
  last_call,  \* the capability call made last and what came of it
  invocations, \* TerraformHandler invocations the scheduler runs side by
              \* side: for each its node, position and locals
  executor,   \* the commands the shared executor was handed, in order
  heap,       \* the set objects of a DevOpsCapabilityProvider and its caller:
              \* object name -> members
  held,       \* the object the caller got from get_applied ("none" before)
  _devops_tool_graph,  \* the module's cached tool graph (None or a graph)
  _config,    \* the module's cached YAML config (None or a version of it)
  graphs,     \* the ToolExecutionGraph objects built so far, each the
              \* config it was built from and whether a caller added to it
  yaml_file   \* the version of the YAML config on disk

gateVars == <<gate, verdict>>
handlerVars == <<handler, bin, node, pc, tool_calls, calls, replies, result, raised>>
capabilityVars == <<orchestrator, last_call>>
\* the state outside the workflow engine
concurrentVars == <<invocations, executor>>
providerVars == <<heap, held>>
graphVars == <<_devops_tool_graph, _config, graphs, yaml_file>>
otherVars == <<capabilityVars, concurrentVars, providerVars, graphVars>>
vars == <<ctx, gate, verdict, handler, bin, node, pc, tool_calls, calls, replies, result,
          raised, orchestrator, last_call, invocations, executor, heap, held,
          _devops_tool_graph, _config, graphs, yaml_file>>

----------------------------------------------------------------------------
(* Python values *)

None == [t |-> "none"]
B(b) == [t |-> "bool", b |-> b]
S(s) == [t |-> "str", s |-> s]
N(n) == [t |-> "num", n |-> n]
D(d) == [t |-> "dict", d |-> d]
L(l) == [t |-> "list", l |-> l]
EmptyDict == D(<< >>)
\* a key that is not in a mapping (no Python value: a position in the inputs)
Absent == [t |-> "absent"]

\* the whole number 1, in thousandths
Unit == 10 * 10 * 10
Whole(i) == N(i * Unit)

IsDict(v) == v.t = "dict"
\* bool is a subclass of int: it compares with numbers
IsNumber(v) == v.t \in {"num", "bool"}
NumOf(v) == IF v.t = "bool" THEN (IF v.b THEN Unit ELSE 0) ELSE v.n

\* bool(v)
Truthy(v) ==
  CASE v.t = "none" -> FALSE
    [] v.t = "bool" -> v.b
    [] v.t = "str" -> v.s # ""
    [] v.t = "num" -> v.n # 0
    [] v.t = "dict" -> DOMAIN v.d # {}
    [] v.t = "list" -> v.l # << >>

\* mapping.get(key, default), for a ctx or the inside of a dict
Get(m, key, default) == IF key \in DOMAIN m THEN m[key] ELSE default

\* a == "literal"
EqStr(v, lit) == v.t = "str" /\ v.s = lit

\* the mapping without its Absent positions
Strip(f) == [k \in {j \in DOMAIN f : f[j] # Absent} |-> f[k]]

AttributeError == "AttributeError"
TypeError == "TypeError"
Raised == {AttributeError, TypeError}

----------------------------------------------------------------------------
(* the literals of escape_hatches.py, fractions in thousandths *)

MIN_HEALTHY_PCT == 800       \* 0.8
\* a rollback already at an error rate of 0.1 (>= in place of >)
RollbackFromTenPercent == 100 - 1
ROLLBACK_ERROR_RATE == 100   \* 0.1
MONITOR_ERROR_RATE == 10     \* 0.01
\* a warning already at the size limit (>= in place of >)
WarningFromMaxSize == 2000 - 1
MAX_IMAGE_SIZE == 2000       \* 2000 (MB)
\* major drift already at 10 changes (>= in place of >)
MajorDriftFromTen == 10 - 1
MAJOR_DRIFT_CHANGES == 10    \* 10 changes
\* an unknown threshold taken as "medium"
UnknownThresholdAsMedium == 3 - 1
DEFAULT_THRESHOLD_IDX == 3   \* the index used for an unknown threshold
\* a default required coverage of 0.7
RequiredCoverageSeventy == 800 - 100
REQUIRED_COVERAGE == 800     \* 0.8

----------------------------------------------------------------------------
(* escape_hatches.py: the condition functions *)

\* deployment_ready with the rejection rule tried before the production rule
deployment_ready_rejection_first(c) ==
  LET config_valid == Get(c, "config_valid", B(FALSE))
      dependencies_met == Get(c, "dependencies_met", B(FALSE))
      approval_status == Get(c, "approval_status", S("pending"))
      environment == Get(c, "environment", S("development"))
  IN  IF ~Truthy(config_valid) THEN "failed"
      ELSE IF ~Truthy(dependencies_met) THEN "blocked"
      ELSE IF EqStr(approval_status, "rejected") THEN "failed"
      ELSE IF EqStr(environment, "production") /\ ~EqStr(approval_status, "approved")
        THEN "blocked"
      ELSE "ready"

deployment_ready(c) ==
  LET config_valid == Get(c, "config_valid", B(FALSE))
      dependencies_met == Get(c, "dependencies_met", B(FALSE))
      approval_status == Get(c, "approval_status", S("pending"))
      environment == Get(c, "environment", S("development"))
  IN  IF ~Truthy(config_valid) THEN "failed"
      ELSE IF ~Truthy(dependencies_met) THEN "blocked"
      ELSE IF EqStr(environment, "production") /\ ~EqStr(approval_status, "approved")
        THEN "blocked"
      ELSE IF EqStr(approval_status, "rejected") THEN "failed"
      ELSE "ready"

\* sum(1 for r in results.values() if r.get("status") == "healthy")
HealthyCount(d) ==
  Cardinality({e \in DOMAIN d : EqStr(Get(d[e].d, "status", None), "healthy")})

\* health_check_status with > in place of >= min_healthy
health_check_status_above(c) ==
  LET results == Get(c, "health_results", EmptyDict)
      min_healthy == Get(c, "min_healthy_pct", N(MIN_HEALTHY_PCT))
  IN  IF ~Truthy(results) THEN "unhealthy"
      ELSE IF results.t \in {"num", "bool"} THEN TypeError
      ELSE IF ~IsDict(results) THEN AttributeError
      ELSE IF \E e \in DOMAIN results.d : ~IsDict(results.d[e]) THEN AttributeError
      ELSE LET total == Cardinality(DOMAIN results.d)
               healthy == HealthyCount(results.d)
           IN  IF healthy >= total THEN "healthy"
               ELSE IF ~IsNumber(min_healthy) THEN TypeError
               ELSE IF healthy * Unit > NumOf(min_healthy) * total THEN "degraded"
               ELSE "unhealthy"

health_check_status(c) ==
  LET results == Get(c, "health_results", EmptyDict)
      min_healthy == Get(c, "min_healthy_pct", N(MIN_HEALTHY_PCT))
  IN  IF ~Truthy(results) THEN "unhealthy"
      \* len(results) of a number, results.values() of a string
      ELSE IF results.t \in {"num", "bool"} THEN TypeError
      ELSE IF ~IsDict(results) THEN AttributeError
      \* r.get of an endpoint value that is no dict
      ELSE IF \E e \in DOMAIN results.d : ~IsDict(results.d[e]) THEN AttributeError
      ELSE LET total == Cardinality(DOMAIN results.d)
               healthy == HealthyCount(results.d)
           IN  \* healthy / total >= 1.0
               IF healthy >= total THEN "healthy"
               ELSE IF ~IsNumber(min_healthy) THEN TypeError
               \* healthy / total >= min_healthy
               ELSE IF healthy * Unit >= NumOf(min_healthy) * total THEN "degraded"
               ELSE "unhealthy"

rollback_needed(c) ==
  LET deploy_result == Get(c, "deploy_result", EmptyDict)
      health_status == Get(c, "health_status", S("unknown"))
      error_rate == Get(c, "error_rate", N(0))
  IN  IF ~IsDict(deploy_result) THEN AttributeError
      ELSE IF ~Truthy(Get(deploy_result.d, "success", B(FALSE))) THEN "rollback"
      ELSE IF EqStr(health_status, "unhealthy") THEN "rollback"
      ELSE IF ~IsNumber(error_rate) THEN TypeError
      ELSE IF NumOf(error_rate) > ROLLBACK_ERROR_RATE THEN "rollback"
      ELSE IF EqStr(health_status, "degraded") \/ NumOf(error_rate) > MONITOR_ERROR_RATE
        THEN "monitor"
      ELSE "stable"

container_build_status(c) ==
  LET build_result == Get(c, "build_result", EmptyDict)
      image_size == Get(c, "image_size", N(0))
      max_size == Get(c, "max_size", Whole(MAX_IMAGE_SIZE))
  IN  IF ~IsDict(build_result) THEN AttributeError
      ELSE IF ~Truthy(Get(build_result.d, "success", B(FALSE))) THEN "failed"
      ELSE IF ~IsNumber(image_size) \/ ~IsNumber(max_size) THEN TypeError
      ELSE IF NumOf(image_size) > NumOf(max_size) THEN "warning"
      ELSE "success"

infrastructure_drift(c) ==
  LET changes == Get(c, "plan_changes", EmptyDict)
  IN  IF ~Truthy(changes) THEN "no_drift"
      ELSE IF ~IsDict(changes) THEN AttributeError
      ELSE LET create_count == Get(changes.d, "create", N(0))
               update_count == Get(changes.d, "update", N(0))
               destroy_count == Get(changes.d, "destroy", N(0))
           IN  IF ~IsNumber(destroy_count) THEN TypeError
               ELSE IF NumOf(destroy_count) > 0 THEN "destructive"
               \* create_count + update_count
               ELSE IF ~IsNumber(create_count) \/ ~IsNumber(update_count) THEN TypeError
               ELSE IF NumOf(create_count) + NumOf(update_count) > MAJOR_DRIFT_CHANGES * Unit
                 THEN "major_drift"
               ELSE IF NumOf(create_count) + NumOf(update_count) > 0 THEN "minor_drift"
               ELSE "no_drift"

severity_levels == <<"info", "low", "medium", "high", "critical">>

\* severity_levels.index(name), the list counted from 0
SeverityIndex(name) == (CHOOSE i \in 1..Len(severity_levels) : severity_levels[i] = name) - 1

InSeverityLevels(v) == v.t = "str" /\ \E i \in 1..Len(severity_levels) : severity_levels[i] = v.s

security_scan_verdict(c) ==
  LET results == Get(c, "scan_results", EmptyDict)
      threshold == Get(c, "severity_threshold", S("high"))
      threshold_idx == IF InSeverityLevels(threshold) THEN SeverityIndex(threshold.s)
                       ELSE DEFAULT_THRESHOLD_IDX
  IN  IF ~IsDict(results) THEN AttributeError
      ELSE LET critical == Get(results.d, "critical", N(0))
               high == Get(results.d, "high", N(0))
               medium == Get(results.d, "medium", N(0))
           IN  IF ~IsNumber(critical) THEN TypeError
               ELSE IF NumOf(critical) > 0 THEN "fail"
               ELSE IF ~IsNumber(high) THEN TypeError
               ELSE IF NumOf(high) > 0 /\ threshold_idx <= SeverityIndex("high") THEN "fail"
               ELSE IF ~IsNumber(medium) THEN TypeError
               ELSE IF NumOf(medium) > 0 /\ threshold_idx <= SeverityIndex("medium") THEN "warn"
               ELSE "pass"

\* pipeline_stage_gate with a retry branch for tolerated test failures
pipeline_stage_gate_retrying(c) ==
  LET results == Get(c, "stage_results", EmptyDict)
      required_coverage == Get(c, "required_coverage", N(REQUIRED_COVERAGE))
      allow_failures == Get(c, "allow_failures", B(FALSE))
  IN  IF ~IsDict(results) THEN AttributeError
      ELSE LET tests_passed == Get(results.d, "tests_passed", B(FALSE))
               coverage == Get(results.d, "coverage", N(0))
           IN  IF ~Truthy(tests_passed) /\ ~Truthy(allow_failures) THEN "abort"
               ELSE IF ~Truthy(tests_passed) THEN "retry"
               ELSE IF ~IsNumber(coverage) \/ ~IsNumber(required_coverage) THEN TypeError
               ELSE IF NumOf(coverage) < NumOf(required_coverage) THEN "abort"
               ELSE "proceed"

pipeline_stage_gate(c) ==
  LET results == Get(c, "stage_results", EmptyDict)
      required_coverage == Get(c, "required_coverage", N(REQUIRED_COVERAGE))
      allow_failures == Get(c, "allow_failures", B(FALSE))
  IN  IF ~IsDict(results) THEN AttributeError
      ELSE LET tests_passed == Get(results.d, "tests_passed", B(FALSE))
               coverage == Get(results.d, "coverage", N(0))
           IN  IF ~Truthy(tests_passed) /\ ~Truthy(allow_failures) THEN "abort"
               ELSE IF ~IsNumber(coverage) \/ ~IsNumber(required_coverage) THEN TypeError
               ELSE IF NumOf(coverage) < NumOf(required_coverage) THEN "abort"
               ELSE "proceed"

\* CONDITIONS: the registry the workflow loader dispatches on
CONDITIONS == {"deployment_ready", "health_check_status", "rollback_needed",
               "container_build_status", "infrastructure_drift",
               "security_scan_verdict", "pipeline_stage_gate"}

\* the registry with rollback_needed bound to the build gate
EvaluateMisregistered(g, c) ==
  CASE g = "deployment_ready" -> deployment_ready(c)
    [] g = "health_check_status" -> health_check_status(c)
    [] g = "rollback_needed" -> container_build_status(c)
    [] g = "container_build_status" -> container_build_status(c)
    [] g = "infrastructure_drift" -> infrastructure_drift(c)
    [] g = "security_scan_verdict" -> security_scan_verdict(c)
    [] g = "pipeline_stage_gate" -> pipeline_stage_gate(c)

Evaluate(g, c) ==
  CASE g = "deployment_ready" -> deployment_ready(c)
    [] g = "health_check_status" -> health_check_status(c)
    [] g = "rollback_needed" -> rollback_needed(c)
    [] g = "container_build_status" -> container_build_status(c)
    [] g = "infrastructure_drift" -> infrastructure_drift(c)
    [] g = "security_scan_verdict" -> security_scan_verdict(c)
    [] g = "pipeline_stage_gate" -> pipeline_stage_gate(c)

----------------------------------------------------------------------------
(* The contexts the gates are called on: every subset of a gate's keys,    *)
(* each present key holding a value of its type or a malformed one.        *)

\* the largest create / update count of a plan
MaxCount == 11
\* the number of endpoints health_results may hold
MaxEndpoints == 5

EndpointNames == <<"api", "db", "web", "cache", "queue", "auth", "search">>
Endpoints == {EndpointNames[i] : i \in 1..MaxEndpoints}

\* the dicts over `keys`, each key absent or holding a value of vals
Dicts(keys, vals) == {D(Strip(f)) : f \in [keys -> vals \cup {Absent}]}

FlagVals == {Absent, B(TRUE), B(FALSE), None}

DeployContexts ==
  {Strip(f) : f \in [config_valid : FlagVals,
                     dependencies_met : FlagVals,
                     approval_status : {Absent, S("pending"), S("approved"), S("rejected")},
                     environment : {Absent, S("production"), S("staging")}]}

EndpointVals == {D([status |-> S("healthy")]), D([status |-> S("down")]), EmptyDict,
                 S("healthy")}

HealthContexts ==
  {Strip(f) : f \in [health_results : {Absent, None, S("healthy")} \cup Dicts(Endpoints, EndpointVals),
                     min_healthy_pct : {Absent, N(500), N(600), S("80%")}]}

ResultVals == {Absent, None, S("ok")} \cup Dicts({"success"}, {B(TRUE), B(FALSE)})

RollbackContexts ==
  {Strip(f) : f \in [deploy_result : ResultVals,
                     health_status : {Absent, S("healthy"), S("degraded"), S("unhealthy")},
                     error_rate : {Absent, N(0), N(10), N(11), N(100), N(101), N(150),
                                   S("high")}]}

BuildContexts ==
  {Strip(f) : f \in [build_result : ResultVals,
                     image_size : {Absent, Whole(500), Whole(2000), Whole(2001), Whole(3000),
                                   S("big")},
                     max_size : {Absent, Whole(500), Whole(3000)}]}

CountVals == {Whole(i) : i \in 0..MaxCount} \cup {S("many")}

PlanVals ==
  {D(Strip(f)) : f \in [create : CountVals \cup {Absent},
                        update : CountVals \cup {Absent},
                        destroy : {Absent, Whole(0), Whole(1), S("many")}]}

DriftContexts ==
  {Strip(f) : f \in [plan_changes : {Absent, None, S("changes")} \cup PlanVals]}

ScanContexts ==
  {Strip(f) : f \in [scan_results : {Absent, None}
                                     \cup Dicts({"critical", "high", "medium"},
                                                {Whole(0), Whole(2), S("many")}),
                     severity_threshold : {Absent, S("info"), S("low"), S("medium"),
                                           S("high"), S("critical"), S("urgent"), None}]}

StageVals ==
  {D(Strip(f)) : f \in [tests_passed : {Absent, B(TRUE), B(FALSE)},
                        coverage : {Absent, N(0), N(500), N(799), N(800), N(900),
                                    S("90%")}]}

StageContexts ==
  {Strip(f) : f \in [stage_results : {Absent, S("passed")} \cup StageVals,
                     required_coverage : {Absent, N(500), N(900)},
                     allow_failures : {Absent, B(TRUE), B(FALSE)}]}

Contexts == DeployContexts \cup HealthContexts \cup RollbackContexts \cup BuildContexts
            \cup DriftContexts \cup ScanContexts \cup StageContexts

----------------------------------------------------------------------------
(* The host engine's branch resolver calls a gate on the context. *)

NoGate ==
  /\ gate = "none"
  /\ verdict = "none"

NoInvocation ==
  /\ handler = "none"
  /\ bin = "none"
  /\ node = None
  /\ pc = "idle"
  /\ tool_calls = 0
  /\ calls = << >>
  /\ replies = << >>
  /\ result = None
  /\ raised = None

\* no orchestrator is being configured
NoCapabilities ==
  /\ orchestrator = None
  /\ last_call = None

\* the scheduler runs nothing side by side
NoConcurrency ==
  /\ invocations = << >>
  /\ executor = << >>

\* no DevOpsCapabilityProvider has been made
NoProvider ==
  /\ heap = << >>
  /\ held = "none"

\* the tool_dependencies module as imported: nothing cached, nothing built
NoToolGraph ==
  /\ _devops_tool_graph = None
  /\ _config = None
  /\ graphs = << >>
  /\ yaml_file = S("v1")

NothingElse == NoCapabilities /\ NoConcurrency /\ NoProvider /\ NoToolGraph

GateInit ==
  /\ ctx \in Contexts
  /\ NoGate
  /\ NoInvocation
  /\ NothingElse

CallDeploymentReady ==
  /\ gate' = "deployment_ready"
  /\ verdict' = Evaluate("deployment_ready", ctx)
  /\ UNCHANGED <<ctx, handlerVars, otherVars>>

CallHealthCheckStatus ==
  /\ gate' = "health_check_status"
  /\ verdict' = Evaluate("health_check_status", ctx)
  /\ UNCHANGED <<ctx, handlerVars, otherVars>>

CallRollbackNeeded ==
  /\ gate' = "rollback_needed"
  /\ verdict' = Evaluate("rollback_needed", ctx)
  /\ UNCHANGED <<ctx, handlerVars, otherVars>>

CallContainerBuildStatus ==
  /\ gate' = "container_build_status"
  /\ verdict' = Evaluate("container_build_status", ctx)
  /\ UNCHANGED <<ctx, handlerVars, otherVars>>

CallInfrastructureDrift ==
  /\ gate' = "infrastructure_drift"
  /\ verdict' = Evaluate("infrastructure_drift", ctx)
  /\ UNCHANGED <<ctx, handlerVars, otherVars>>

CallSecurityScanVerdict ==
  /\ gate' = "security_scan_verdict"
  /\ verdict' = Evaluate("security_scan_verdict", ctx)
  /\ UNCHANGED <<ctx, handlerVars, otherVars>>

CallPipelineStageGate ==
  /\ gate' = "pipeline_stage_gate"
  /\ verdict' = Evaluate("pipeline_stage_gate", ctx)
  /\ UNCHANGED <<ctx, handlerVars, otherVars>>

GateNext ==
  \/ CallDeploymentReady
  \/ CallHealthCheckStatus
  \/ CallRollbackNeeded
  \/ CallContainerBuildStatus
  \/ CallInfrastructureDrift
  \/ CallSecurityScanVerdict
  \/ CallPipelineStageGate

SpecGates == GateInit /\ [][GateNext]_vars

----------------------------------------------------------------------------
(* handlers.py: ContainerOpsHandler and TerraformHandler.                  *)
(* An invocation is cut at its awaits of tool_registry.execute: the        *)
(* executor answers each command with a result or with an exception.       *)

\* str(v), as an f-string formats a value
Str(v) ==
  CASE v.t = "str" -> v.s
    [] v.t = "none" -> "None"
    [] v.t = "bool" -> IF v.b THEN "True" ELSE "False"

COMPLETED == "completed"
FAILED == "failed"

\* NodeResult(node_id=..., status=...): the fields a call site leaves out keep
\* the defaults of victor.workflows.executor.NodeResult (duration_seconds,
\* a wall-clock reading, is left out)
NodeResult(node_id, status) ==
  [node_id |-> node_id, status |-> status, output |-> None, error |-> None,
   tool_calls_used |-> 0]

\* what tool_registry.execute hands back, or the exception it raises
ToolResult(success, output, error) ==
  [kind |-> "result", success |-> success, output |-> output, error |-> error]
ToolException(msg) == [kind |-> "raise", msg |-> msg]

\* context.set(key, value)
ContextSet(c, key, value) ==
  [k \in DOMAIN c \cup {key} |-> IF k = key THEN value ELSE c[k]]

\* the node's own identifier only under an output_key of None
OutputKeyUnlessNone(n) == IF n.output_key = None THEN n.id ELSE n.output_key.s

\* node.output_key or node.id
OutputKey(n) == IF Truthy(n.output_key) THEN n.output_key.s ELSE n.id

ContainerOperations == {"build", "push", "pull", "run", "stop"}
TerraformOperations == {"init", "plan", "apply", "destroy"}

\* the operation is one of the branches of the if / elif chain
Recognized(operation, known) == operation.t = "str" /\ operation.s \in known

\* the failure of an unknown operation without the operation's name
UnknownOperationUnnamed(n, operation) ==
  [NodeResult(n.id, FAILED) EXCEPT !.error = S("Unknown operation")]

UnknownOperation(n, operation) ==
  [NodeResult(n.id, FAILED) EXCEPT !.error = S("Unknown operation: " \o Str(operation))]

\* ContainerCommand with push naming the image in place of the tag
ContainerCommandPushImage(runtime, m) ==
  LET operation == Get(m, "operation", S("build"))
      dockerfile == Get(m, "dockerfile", S("Dockerfile"))
      tag == Get(m, "tag", S("latest"))
      image == Get(m, "image", S(""))
      container_id == Get(m, "container_id", S(""))
  IN  CASE operation.s = "build" ->
             runtime \o " build -f " \o Str(dockerfile) \o " -t " \o Str(tag) \o " ."
        [] operation.s = "push" -> runtime \o " push " \o Str(image)
        [] operation.s = "pull" -> runtime \o " pull " \o Str(image)
        [] operation.s = "run" -> runtime \o " run -d " \o Str(image)
        [] operation.s = "stop" -> runtime \o " stop " \o Str(container_id)

\* ContainerOpsHandler: the command of a recognized operation
ContainerCommand(runtime, m) ==
  LET operation == Get(m, "operation", S("build"))
      dockerfile == Get(m, "dockerfile", S("Dockerfile"))
      tag == Get(m, "tag", S("latest"))
      image == Get(m, "image", S(""))
      container_id == Get(m, "container_id", S(""))
  IN  CASE operation.s = "build" ->
             runtime \o " build -f " \o Str(dockerfile) \o " -t " \o Str(tag) \o " ."
        [] operation.s = "push" -> runtime \o " push " \o Str(tag)
        [] operation.s = "pull" -> runtime \o " pull " \o Str(image)
        [] operation.s = "run" -> runtime \o " run -d " \o Str(image)
        [] operation.s = "stop" -> runtime \o " stop " \o Str(container_id)

\* TerraformCommand with destroy always auto-approved
TerraformCommandDestroyApproved(binary, m) ==
  LET operation == Get(m, "operation", S("plan"))
      auto_approve == Get(m, "auto_approve", B(FALSE))
  IN  CASE operation.s = "init" -> binary \o " init"
        [] operation.s = "plan" -> binary \o " plan -out=tfplan"
        [] operation.s = "apply" ->
             binary \o " apply" \o (IF Truthy(auto_approve) THEN " -auto-approve" ELSE " tfplan")
        [] operation.s = "destroy" -> binary \o " destroy -auto-approve"

\* TerraformHandler: the main command of a recognized operation
TerraformCommand(binary, m) ==
  LET operation == Get(m, "operation", S("plan"))
      auto_approve == Get(m, "auto_approve", B(FALSE))
  IN  CASE operation.s = "init" -> binary \o " init"
        [] operation.s = "plan" -> binary \o " plan -out=tfplan"
        [] operation.s = "apply" ->
             binary \o " apply" \o (IF Truthy(auto_approve) THEN " -auto-approve" ELSE " tfplan")
        [] operation.s = "destroy" ->
             binary \o " destroy" \o (IF Truthy(auto_approve) THEN " -auto-approve" ELSE "")

WorkspaceSelectCommand(binary, workspace) ==
  binary \o " workspace select " \o Str(workspace)

\* ContainerOpsHandler.__call__, to its await or its early return
ContainerCall(runtime, n) ==
  /\ pc = "idle"
  /\ handler' = "container_ops"
  /\ bin' = runtime
  /\ node' = n
  /\ LET operation == Get(n.input_mapping, "operation", S("build"))
     IN  IF Recognized(operation, ContainerOperations)
         THEN /\ calls' = <<ContainerCommand(runtime, n.input_mapping)>>
              /\ pc' = "main"
              /\ UNCHANGED result
         ELSE /\ result' = UnknownOperation(n, operation)
              /\ pc' = "returned"
              /\ UNCHANGED calls
  /\ UNCHANGED <<ctx, gateVars, otherVars, tool_calls, replies, raised>>

\* ContainerMainReturns with a status of COMPLETED whatever the executor said
ContainerMainReturnsCompleted(r) ==
  /\ pc = "main"
  /\ handler = "container_ops"
  /\ LET operation == Get(node.input_mapping, "operation", S("build"))
         output == D([operation |-> operation, success |-> B(r.success),
                      output |-> r.output])
     IN  /\ ctx' = ContextSet(ctx, OutputKey(node), output)
         /\ result' = [NodeResult(node.id, COMPLETED)
                         EXCEPT !.output = output, !.tool_calls_used = 1]
  /\ replies' = Append(replies, r)
  /\ pc' = "returned"
  /\ UNCHANGED <<gateVars, otherVars, handler, bin, node, tool_calls, calls, raised>>

\* ContainerOpsHandler.__call__, the executor has answered: the try body
ContainerMainReturns(r) ==
  /\ pc = "main"
  /\ handler = "container_ops"
  /\ LET operation == Get(node.input_mapping, "operation", S("build"))
         output == D([operation |-> operation, success |-> B(r.success),
                      output |-> r.output])
     IN  /\ ctx' = ContextSet(ctx, OutputKey(node), output)
         /\ result' = [NodeResult(node.id, IF r.success THEN COMPLETED ELSE FAILED)
                         EXCEPT !.output = output, !.tool_calls_used = 1]
  /\ replies' = Append(replies, r)
  /\ pc' = "returned"
  /\ UNCHANGED <<gateVars, otherVars, handler, bin, node, tool_calls, calls, raised>>

\* ContainerOpsHandler.__call__, the executor has raised: except Exception
ContainerMainRaises(msg) ==
  /\ pc = "main"
  /\ handler = "container_ops"
  /\ result' = [NodeResult(node.id, FAILED) EXCEPT !.error = S(msg)]
  /\ replies' = Append(replies, ToolException(msg))
  /\ pc' = "returned"
  /\ UNCHANGED <<ctx, gateVars, otherVars, handler, bin, node, tool_calls, calls, raised>>

\* TerraformHandler.__call__ from the if / elif chain to the await of the main
\* command, `issued` being the commands handed to the executor so far
TerraformMainStep(binary, n, issued) ==
  LET operation == Get(n.input_mapping, "operation", S("plan"))
  IN  IF Recognized(operation, TerraformOperations)
      THEN /\ calls' = Append(issued, TerraformCommand(binary, n.input_mapping))
           /\ pc' = "main"
           /\ UNCHANGED result
      ELSE /\ calls' = issued
           /\ result' = UnknownOperation(n, operation)
           /\ pc' = "returned"

\* TerraformHandler.__call__, to its first await or its early return
TerraformCall(binary, n) ==
  /\ pc = "idle"
  /\ handler' = "terraform_apply"
  /\ bin' = binary
  /\ node' = n
  /\ tool_calls' = 0
  /\ LET workspace == Get(n.input_mapping, "workspace", None)
     IN  IF Truthy(workspace)
         THEN /\ calls' = <<WorkspaceSelectCommand(binary, workspace)>>
              /\ pc' = "workspace_select"
              /\ UNCHANGED result
         ELSE TerraformMainStep(binary, n, << >>)
  /\ UNCHANGED <<ctx, gateVars, otherVars, replies, raised>>

\* the workspace select answered, the invocation given up when it failed
WorkspaceSelectReturnsOrAborts(r) ==
  /\ pc = "workspace_select"
  /\ replies' = Append(replies, r)
  /\ tool_calls' = tool_calls + 1
  /\ IF r.success
     THEN TerraformMainStep(bin, node, calls)
     ELSE /\ result' = [NodeResult(node.id, FAILED)
                          EXCEPT !.error = r.error, !.tool_calls_used = tool_calls']
          /\ pc' = "returned"
          /\ UNCHANGED calls
  /\ UNCHANGED <<ctx, gateVars, otherVars, handler, bin, node, raised>>

\* the workspace select has been answered: its result is dropped
WorkspaceSelectReturns(r) ==
  /\ pc = "workspace_select"
  /\ replies' = Append(replies, r)
  /\ tool_calls' = tool_calls + 1
  /\ TerraformMainStep(bin, node, calls)
  /\ UNCHANGED <<ctx, gateVars, otherVars, handler, bin, node, raised>>

\* the workspace select has raised: the await stands outside the try
WorkspaceSelectRaises(msg) ==
  /\ pc = "workspace_select"
  /\ replies' = Append(replies, ToolException(msg))
  /\ raised' = S(msg)
  /\ pc' = "raised"
  /\ UNCHANGED <<ctx, gateVars, otherVars, handler, bin, node, tool_calls, calls, result>>

\* TerraformHandler.__call__, the main command has been answered: the try body
TerraformMainReturns(r) ==
  /\ pc = "main"
  /\ handler = "terraform_apply"
  /\ tool_calls' = tool_calls + 1
  /\ LET operation == Get(node.input_mapping, "operation", S("plan"))
         workspace == Get(node.input_mapping, "workspace", None)
         output == D([operation |-> operation, workspace |-> workspace,
                      success |-> B(r.success), output |-> r.output])
     IN  /\ ctx' = ContextSet(ctx, OutputKey(node), output)
         /\ result' = [NodeResult(node.id, IF r.success THEN COMPLETED ELSE FAILED)
                         EXCEPT !.output = output, !.tool_calls_used = tool_calls']
  /\ replies' = Append(replies, r)
  /\ pc' = "returned"
  /\ UNCHANGED <<gateVars, otherVars, handler, bin, node, calls, raised>>

\* TerraformHandler.__call__, the main command has raised: except Exception
TerraformMainRaises(msg) ==
  /\ pc = "main"
  /\ handler = "terraform_apply"
  /\ result' = [NodeResult(node.id, FAILED) EXCEPT !.error = S(msg)]
  /\ replies' = Append(replies, ToolException(msg))
  /\ pc' = "returned"
  /\ UNCHANGED <<ctx, gateVars, otherVars, handler, bin, node, tool_calls, calls, raised>>

----------------------------------------------------------------------------
(* The nodes the engine invokes the handlers for, and the executor. *)

OutputKeys == {None, S(""), S("result")}

ContainerNodes ==
  {[id |-> "build_image", input_mapping |-> Strip(f), output_key |-> k] :
     f \in [operation : {Absent, S("build"), S("push"), S("pull"), S("run"), S("stop"),
                         S("restart")},
            dockerfile : {Absent, S("Dockerfile.prod")},
            tag : {Absent, S("myapp:v1")},
            image : {Absent, S("nginx")},
            container_id : {Absent, S("abc123")}],
     k \in OutputKeys}

TerraformNodes ==
  {[id |-> "apply_infra", input_mapping |-> Strip(f), output_key |-> k] :
     f \in [operation : {Absent, S("init"), S("plan"), S("apply"), S("destroy"),
                         S("refresh")},
            workspace : {Absent, S(""), S("production"), S("staging")},
            auto_approve : {Absent, B(TRUE), B(FALSE)}],
     k \in OutputKeys}

\* the runtime field of ContainerOpsHandler(**kwargs), "docker" by default
ContainerRuntime(kwargs) ==
  IF "runtime" \in DOMAIN kwargs THEN kwargs["runtime"] ELSE "docker"

\* ContainerOpsHandler() as HANDLERS registers it, and ContainerOpsHandler(runtime="podman")
Runtimes == {ContainerRuntime(kwargs) : kwargs \in {<< >>, [runtime |-> "podman"]}}
Binaries == {"terraform", "tofu"}

ExecutorResults ==
  {ToolResult(TRUE, S("done"), None),
   ToolResult(FALSE, S(""), S("exit status 1")),
   ToolResult(FALSE, None, None)}
ExecutorErrors == {"connection refused"}

\* the context the engine hands over: empty, or holding earlier outputs
HandlerContexts ==
  {<< >>,
   [unrelated |-> S("kept")],
   [unrelated |-> S("kept"), result |-> S("stale"), build_image |-> S("stale"),
    apply_infra |-> S("stale")]}

HandlerInit ==
  /\ ctx \in HandlerContexts
  /\ NoGate
  /\ NoInvocation
  /\ NothingElse

ContainerInvoke == \E runtime \in Runtimes, n \in ContainerNodes : ContainerCall(runtime, n)
TerraformInvoke == \E binary \in Binaries, n \in TerraformNodes : TerraformCall(binary, n)
ExecutorReturnsSelect == \E r \in ExecutorResults : WorkspaceSelectReturns(r)
ExecutorRaisesSelect == \E msg \in ExecutorErrors : WorkspaceSelectRaises(msg)
ExecutorReturnsContainer == \E r \in ExecutorResults : ContainerMainReturns(r)
ExecutorRaisesContainer == \E msg \in ExecutorErrors : ContainerMainRaises(msg)
ExecutorReturnsTerraform == \E r \in ExecutorResults : TerraformMainReturns(r)
ExecutorRaisesTerraform == \E msg \in ExecutorErrors : TerraformMainRaises(msg)

HandlerNext ==
  \/ ContainerInvoke
  \/ TerraformInvoke
  \/ ExecutorReturnsSelect
  \/ ExecutorRaisesSelect
  \/ ExecutorReturnsContainer
  \/ ExecutorRaisesContainer
  \/ ExecutorReturnsTerraform
  \/ ExecutorRaisesTerraform

SpecHandlers == HandlerInit /\ [][HandlerNext]_vars

----------------------------------------------------------------------------
(* Properties of the gates (SpecGates) *)

Has(k) == k \in DOMAIN ctx
\* the key is absent or holds a false value
FalseOrAbsent(k) == ~Has(k) \/ ~Truthy(ctx[k])
\* the key holds this string
Is(k, lit) == Has(k) /\ ctx[k] = S(lit)

\* C1: deployment_ready evaluates its rules in a fixed order: config_valid
\* false or absent gives "failed" whatever the other keys are; otherwise
\* dependencies_met false or absent gives "blocked"; otherwise production
\* without approval_status "approved" gives "blocked" (also when rejected);
\* otherwise approval_status "rejected" gives "failed"; otherwise "ready".
\* "ready" is never returned for production unless approved.
C1_DeploymentReadyOrder ==
  gate = "deployment_ready" =>
    LET noConfig == FalseOrAbsent("config_valid")
        noDeps == FalseOrAbsent("dependencies_met")
        unapprovedProduction == Is("environment", "production")
                                /\ ~Is("approval_status", "approved")
        rejected == Is("approval_status", "rejected")
    IN  /\ noConfig => verdict = "failed"
        /\ ~noConfig /\ noDeps => verdict = "blocked"
        /\ ~noConfig /\ ~noDeps /\ unapprovedProduction => verdict = "blocked"
        /\ ~noConfig /\ ~noDeps /\ ~unapprovedProduction /\ rejected => verdict = "failed"
        /\ ~noConfig /\ ~noDeps /\ ~unapprovedProduction /\ ~rejected => verdict = "ready"
        /\ verdict = "ready" /\ Is("environment", "production")
             => Is("approval_status", "approved")

\* C1's case: a rejected production deployment with valid config and met
\* dependencies has been judged, and is blocked
C1_Witness ==
  /\ gate = "deployment_ready"
  /\ ~FalseOrAbsent("config_valid")
  /\ ~FalseOrAbsent("dependencies_met")
  /\ Is("environment", "production")
  /\ Is("approval_status", "rejected")
  /\ verdict = "blocked"

\* C7: no gate function ever fails: for every context, also one where a
\* relevant key is present but malformed, each of the seven gates returns a
\* verdict and raises no error.
C7_GatesNeverRaise == gate # "none" => verdict \notin Raised

\* the types of the context keys the gates read
BoolKeys == {"config_valid", "dependencies_met", "allow_failures"}
StrKeys == {"approval_status", "environment", "health_status", "severity_threshold"}
NumKeys == {"min_healthy_pct", "error_rate", "image_size", "max_size", "required_coverage"}
\* the fields of the record-valued keys, by type
BoolFields == {"success", "tests_passed"}
NumFields == {"create", "update", "destroy", "critical", "high", "medium", "coverage"}

WellFormedRecord(v) ==
  /\ v.t = "dict"
  /\ \A f \in DOMAIN v.d :
       CASE f \in BoolFields -> v.d[f].t = "bool"
         [] f \in NumFields -> v.d[f].t = "num"
         [] f = "status" -> v.d[f].t = "str"
         [] OTHER -> FALSE

WellFormedValue(k, v) ==
  CASE k \in BoolKeys -> v.t = "bool"
    [] k \in StrKeys -> v.t = "str"
    [] k \in NumKeys -> v.t = "num"
    [] k = "health_results" ->
         v.t = "dict" /\ \A e \in DOMAIN v.d : WellFormedRecord(v.d[e])
    [] OTHER -> WellFormedRecord(v)

WellFormed(c) == \A k \in DOMAIN c : WellFormedValue(k, c[k])

VerdictSet(g) ==
  CASE g = "deployment_ready" -> {"ready", "blocked", "failed"}
    [] g = "health_check_status" -> {"healthy", "degraded", "unhealthy"}
    [] g = "rollback_needed" -> {"rollback", "monitor", "stable"}
    [] g = "container_build_status" -> {"success", "warning", "failed"}
    [] g = "infrastructure_drift" -> {"no_drift", "minor_drift", "major_drift", "destructive"}
    [] g = "security_scan_verdict" -> {"pass", "warn", "fail"}
    [] g = "pipeline_stage_gate" -> {"proceed", "retry", "abort"}

EmptyContextVerdict(g) ==
  CASE g = "deployment_ready" -> "failed"
    [] g = "health_check_status" -> "unhealthy"
    [] g = "rollback_needed" -> "rollback"
    [] g = "container_build_status" -> "failed"
    [] g = "infrastructure_drift" -> "no_drift"
    [] g = "security_scan_verdict" -> "pass"
    [] g = "pipeline_stage_gate" -> "abort"

\* C8: on every well-formed context (any subset of the keys present) each
\* gate returns one literal of its declared verdict set, and on the empty
\* context the verdicts are failed, unhealthy, rollback, failed, no_drift,
\* pass and abort.
C8_VerdictInDeclaredSet ==
  gate # "none" /\ WellFormed(ctx) =>
    /\ verdict \in VerdictSet(gate)
    /\ DOMAIN ctx = {} => verdict = EmptyContextVerdict(gate)

\* C8's case: a gate has judged the empty context
C8_Witness ==
  /\ gate = "rollback_needed"
  /\ DOMAIN ctx = {}
  /\ verdict = "rollback"

\* a count of scan_results / the fields of deploy_result, absent ones defaulted
ScanCount(f) ==
  IF Has("scan_results") /\ f \in DOMAIN ctx["scan_results"].d
  THEN ctx["scan_results"].d[f].n ELSE 0

\* the threshold's place in [info, low, medium, high, critical], counted
\* from 0; an absent or unknown threshold stands at 3
ThresholdIndex ==
  IF ~Has("severity_threshold") THEN 3
  ELSE CASE ctx["severity_threshold"] = S("info") -> 0
         [] ctx["severity_threshold"] = S("low") -> 1
         [] ctx["severity_threshold"] = S("medium") -> 2
         [] ctx["severity_threshold"] = S("high") -> 3
         [] ctx["severity_threshold"] = S("critical") -> 4
         [] OTHER -> 3

\* C9: security_scan_verdict is "fail" if critical > 0 whatever the
\* threshold; otherwise "fail" if high > 0 and the threshold's index is at
\* most that of "high"; otherwise "warn" if medium > 0 and the index is at
\* most that of "medium"; otherwise "pass". An absent threshold is "high",
\* an unknown one counts as index 3: medium findings alone under the default
\* threshold pass.
C9_SecurityScanRule ==
  gate = "security_scan_verdict" /\ WellFormed(ctx) =>
    /\ verdict =
         IF ScanCount("critical") > 0 THEN "fail"
         ELSE IF ScanCount("high") > 0 /\ ThresholdIndex <= 3 THEN "fail"
         ELSE IF ScanCount("medium") > 0 /\ ThresholdIndex <= 2 THEN "warn"
         ELSE "pass"
    /\ ScanCount("critical") = 0 /\ ScanCount("high") = 0 /\ ScanCount("medium") > 0
       /\ (~Has("severity_threshold") \/ ThresholdIndex = 3)
         => verdict = "pass"

\* C9's case: medium findings alone, judged under an unknown threshold
C9_Witness ==
  /\ gate = "security_scan_verdict"
  /\ WellFormed(ctx)
  /\ Is("severity_threshold", "urgent")
  /\ ScanCount("critical") = 0 /\ ScanCount("high") = 0 /\ ScanCount("medium") > 0
  /\ verdict = "pass"

DeploySucceeded ==
  /\ Has("deploy_result")
  /\ "success" \in DOMAIN ctx["deploy_result"].d
  /\ ctx["deploy_result"].d["success"].b
\* error_rate in thousandths, 0 when absent
ErrorRate == IF Has("error_rate") THEN ctx["error_rate"].n ELSE 0

\* C10: rollback_needed is "rollback" if deploy_result.success is false or
\* absent, or health_status is "unhealthy", or error_rate > 0.1; otherwise
\* "monitor" if health_status is "degraded" or error_rate > 0.01; otherwise
\* "stable". An error_rate of exactly 0.1 does not roll back and one of
\* exactly 0.01 does not monitor.
C10_RollbackRule ==
  gate = "rollback_needed" /\ WellFormed(ctx) =>
    /\ verdict =
         IF ~DeploySucceeded \/ Is("health_status", "unhealthy") \/ ErrorRate > 100
           THEN "rollback"
         ELSE IF Is("health_status", "degraded") \/ ErrorRate > 10 THEN "monitor"
         ELSE "stable"
    /\ DeploySucceeded /\ ~Is("health_status", "unhealthy") /\ ErrorRate = 100
         => verdict = "monitor"
    /\ DeploySucceeded /\ ~Is("health_status", "unhealthy")
       /\ ~Is("health_status", "degraded") /\ ErrorRate = 10
         => verdict = "stable"

\* C10's case: a successful deployment at an error rate of exactly 0.1
C10_Witness ==
  /\ gate = "rollback_needed"
  /\ WellFormed(ctx)
  /\ DeploySucceeded
  /\ Is("health_status", "healthy")
  /\ ErrorRate = 100
  /\ verdict = "monitor"

\* the endpoints of health_results, and those whose status is "healthy"
HealthEndpoints ==
  IF Has("health_results") THEN DOMAIN ctx["health_results"].d ELSE {}
HealthyEndpoints ==
  {e \in HealthEndpoints :
     /\ "status" \in DOMAIN ctx["health_results"].d[e].d
     /\ ctx["health_results"].d[e].d["status"] = S("healthy")}
\* min_healthy_pct in thousandths, 0.8 when absent
MinHealthyPct == IF Has("min_healthy_pct") THEN ctx["min_healthy_pct"].n ELSE 800

\* C11: health_check_status is "unhealthy" when health_results is empty or
\* absent; otherwise "healthy" iff every endpoint's status is "healthy", else
\* "degraded" iff healthy_count / total >= min_healthy_pct (0.8 by default),
\* else "unhealthy".
C11_HealthCheckRule ==
  gate = "health_check_status" /\ WellFormed(ctx) =>
    LET total == Cardinality(HealthEndpoints)
        healthy_count == Cardinality(HealthyEndpoints)
    IN  /\ total = 0 => verdict = "unhealthy"
        /\ total > 0 => (verdict = "healthy" <=> healthy_count = total)
        /\ total > 0 /\ healthy_count # total =>
             /\ verdict = "degraded" <=> healthy_count * 1000 >= MinHealthyPct * total
             /\ verdict = "unhealthy" <=> healthy_count * 1000 < MinHealthyPct * total

\* C11's case: half of the endpoints healthy under a min_healthy_pct of
\* exactly 0.5 is judged degraded
C11_Witness ==
  /\ gate = "health_check_status"
  /\ WellFormed(ctx)
  /\ Cardinality(HealthEndpoints) = 2
  /\ Cardinality(HealthyEndpoints) = 1
  /\ MinHealthyPct = 500
  /\ verdict = "degraded"

\* a count of plan_changes in thousandths, 0 when absent
PlanCount(f) ==
  IF Has("plan_changes") /\ f \in DOMAIN ctx["plan_changes"].d
  THEN ctx["plan_changes"].d[f].n ELSE 0
PlanEmpty == ~Has("plan_changes") \/ DOMAIN ctx["plan_changes"].d = {}

\* C12: infrastructure_drift is "no_drift" when plan_changes is empty or
\* absent; otherwise "destructive" whenever destroy > 0, whatever create and
\* update are; otherwise "major_drift" iff create + update > 10 (exactly 10
\* is not major), "minor_drift" iff 0 < create + update <= 10, and
\* "no_drift" otherwise.
C12_InfrastructureDriftRule ==
  gate = "infrastructure_drift" /\ WellFormed(ctx) =>
    LET changed == PlanCount("create") + PlanCount("update")
    IN  /\ PlanEmpty => verdict = "no_drift"
        /\ PlanCount("destroy") > 0 => verdict = "destructive"
        /\ PlanCount("destroy") = 0 =>
             /\ verdict = "major_drift" <=> changed > 10 * 1000
             /\ verdict = "minor_drift" <=> (0 < changed /\ changed <= 10 * 1000)
             /\ verdict = "no_drift" <=> changed = 0

\* C12's case: exactly 10 changes and nothing destroyed is minor drift
C12_Witness ==
  /\ gate = "infrastructure_drift"
  /\ WellFormed(ctx)
  /\ PlanCount("destroy") = 0
  /\ PlanCount("create") > 0 /\ PlanCount("update") > 0
  /\ PlanCount("create") + PlanCount("update") = 10 * 1000
  /\ verdict = "minor_drift"

\* a field of stage_results, absent ones defaulted
TestsPassed ==
  /\ Has("stage_results")
  /\ "tests_passed" \in DOMAIN ctx["stage_results"].d
  /\ ctx["stage_results"].d["tests_passed"].b
Coverage ==
  IF Has("stage_results") /\ "coverage" \in DOMAIN ctx["stage_results"].d
  THEN ctx["stage_results"].d["coverage"].n ELSE 0
RequiredCoverage == IF Has("required_coverage") THEN ctx["required_coverage"].n ELSE 800

\* C13: pipeline_stage_gate is "abort" if tests_passed is false or absent
\* and allow_failures is false or absent; otherwise "abort" if coverage <
\* required_coverage (defaults 0 and 0.8), also when allow_failures is true;
\* otherwise "proceed".
C13_PipelineStageRule ==
  gate = "pipeline_stage_gate" /\ WellFormed(ctx) =>
    /\ ~TestsPassed /\ FalseOrAbsent("allow_failures") => verdict = "abort"
    /\ Coverage < RequiredCoverage => verdict = "abort"
    /\ (TestsPassed \/ ~FalseOrAbsent("allow_failures")) /\ Coverage >= RequiredCoverage
         => verdict = "proceed"

\* C13's case: failures are allowed, the default coverage is missed by a
\* thousandth, and the stage is aborted
C13_Witness ==
  /\ gate = "pipeline_stage_gate"
  /\ WellFormed(ctx)
  /\ ~TestsPassed
  /\ ~FalseOrAbsent("allow_failures")
  /\ ~Has("required_coverage")
  /\ Coverage = 799
  /\ verdict = "abort"

\* C14: "retry", a member of pipeline_stage_gate's declared verdict set, is
\* never returned by pipeline_stage_gate, whatever the context.
C14_RetryNeverReturned ==
  gate = "pipeline_stage_gate" => verdict # "retry"

\* C14's case: tolerated test failures with enough coverage, the partial
\* failure a retry would stand for, are let through
C14_Witness ==
  /\ gate = "pipeline_stage_gate"
  /\ WellFormed(ctx)
  /\ Has("stage_results")
  /\ ~TestsPassed
  /\ ~FalseOrAbsent("allow_failures")
  /\ verdict = "proceed"

BuildSucceeded ==
  /\ Has("build_result")
  /\ "success" \in DOMAIN ctx["build_result"].d
  /\ ctx["build_result"].d["success"].b
\* sizes in thousandths of a MB: 0 and 2000 MB when absent
ImageSize == IF Has("image_size") THEN ctx["image_size"].n ELSE 0
MaxSize == IF Has("max_size") THEN ctx["max_size"].n ELSE 2000 * 1000

\* C15: container_build_status is "failed" if build_result.success is false
\* or absent, whatever the image size; otherwise "warning" iff image_size >
\* max_size (2000 by default; an equal size is no warning); otherwise
\* "success".
C15_ContainerBuildRule ==
  gate = "container_build_status" /\ WellFormed(ctx) =>
    /\ ~BuildSucceeded => verdict = "failed"
    /\ BuildSucceeded => (verdict = "warning" <=> ImageSize > MaxSize)
    /\ BuildSucceeded => (verdict = "success" <=> ImageSize <= MaxSize)

\* C15's case: a successful build of exactly the default limit is a success
C15_Witness ==
  /\ gate = "container_build_status"
  /\ WellFormed(ctx)
  /\ BuildSucceeded
  /\ ~Has("max_size")
  /\ ImageSize = 2000 * 1000
  /\ verdict = "success"

\* C26: severity_threshold is the minimum severity that blocks:
\* security_scan_verdict returns "fail" whenever scan_results holds at least
\* one finding among critical, high and medium whose severity is at or above
\* severity_threshold.
C26_ThresholdBlocks ==
  /\ gate = "security_scan_verdict"
  /\ WellFormed(ctx)
  /\ \/ ScanCount("critical") > 0 /\ ThresholdIndex <= 4
     \/ ScanCount("high") > 0 /\ ThresholdIndex <= 3
     \/ ScanCount("medium") > 0 /\ ThresholdIndex <= 2
  => verdict = "fail"

----------------------------------------------------------------------------
(* Properties of the handlers (SpecHandlers) *)

\* the invocation is over: it returned a NodeResult or an exception left it
Ended == pc \in {"returned", "raised"}
IsTerraform == handler = "terraform_apply"
IsContainer == handler = "container_ops"

\* the operation of the node, defaulted as its handler defaults it
NodeOperation ==
  Get(node.input_mapping, "operation", IF IsTerraform THEN S("plan") ELSE S("build"))
RecognizedOperation ==
  Recognized(NodeOperation, IF IsTerraform THEN TerraformOperations ELSE ContainerOperations)

\* the executor has answered the main command with a result
MainAnswered ==
  /\ pc = "returned"
  /\ RecognizedOperation
  /\ Len(replies) = Len(calls)
  /\ replies[Len(replies)].kind = "result"
MainReply == replies[Len(replies)]

\* C2: for both handlers, if any call to the executor raises during an
\* invocation (the workspace select included), the handler returns a Failed
\* NodeResult whose error is the exception's string, and no exception
\* reaches the caller.
C2_ExecutorExceptionBecomesFailed ==
  \A i \in 1..Len(replies) :
    replies[i].kind = "raise" =>
      /\ pc = "returned"
      /\ raised = None
      /\ result.status = FAILED
      /\ result.error = S(replies[i].msg)

\* C3: whenever a command of an invocation reports success=false, the
\* invocation returns a Failed NodeResult, the workspace select included: an
\* invocation whose workspace select failed never returns Completed.
C3_FailedCommandFailsInvocation ==
  pc = "returned" =>
    \A i \in 1..Len(replies) :
      replies[i].kind = "result" /\ ~replies[i].success => result.status = FAILED

WorkspacePresent == "workspace" \in DOMAIN node.input_mapping
\* the workspace parameter is present and not empty
WorkspaceGiven == Truthy(Get(node.input_mapping, "workspace", None))
SelectCommand == bin \o " workspace select " \o node.input_mapping["workspace"].s
MainCommand ==
  bin \o (CASE NodeOperation.s = "init" -> " init"
            [] NodeOperation.s = "plan" -> " plan -out=tfplan"
            [] NodeOperation.s = "apply" ->
                 IF Get(node.input_mapping, "auto_approve", B(FALSE)).b
                 THEN " apply -auto-approve" ELSE " apply tfplan"
            [] NodeOperation.s = "destroy" ->
                 IF Get(node.input_mapping, "auto_approve", B(FALSE)).b
                 THEN " destroy -auto-approve" ELSE " destroy")

\* C4, as claimed: in the IaC handler, when the workspace parameter is
\* present, "{bin} workspace select {workspace}" is issued before any other
\* command whatever the operation; for a recognized operation exactly two
\* executor calls are made, the second the main command, whatever the
\* workspace select answered; when workspace is absent exactly one call is
\* made for a recognized operation.
C4_WorkspaceSelectFirst ==
  IsTerraform =>
    /\ WorkspacePresent => Len(calls) >= 1 /\ calls[1] = SelectCommand
    /\ WorkspacePresent /\ RecognizedOperation /\ Ended
         => Len(calls) = 2 /\ calls[2] = MainCommand
    /\ ~WorkspacePresent /\ RecognizedOperation /\ Ended => Len(calls) = 1

\* C4, amended: when the workspace parameter is present and not empty, the
\* workspace select is issued before any other command whatever the
\* operation; for a recognized operation, once the executor has answered the
\* select with a result, success or not, the main command is issued as the
\* second call and no further one; if the select raises, the invocation ends
\* with that one call. When workspace is absent or empty exactly one call,
\* the main command, is made for a recognized operation.
C4_WorkspaceSelectFirstWhenGiven ==
  IsTerraform =>
    /\ WorkspaceGiven => Len(calls) >= 1 /\ calls[1] = SelectCommand
    /\ WorkspaceGiven /\ RecognizedOperation /\ Len(replies) >= 1
       /\ replies[1].kind = "result"
         => Len(calls) = 2 /\ calls[2] = MainCommand
    /\ WorkspaceGiven /\ Len(replies) >= 1 /\ replies[1].kind = "raise"
         => pc = "raised" /\ Len(calls) = 1
    /\ ~WorkspaceGiven /\ RecognizedOperation
         => Len(calls) = 1 /\ calls[1] = MainCommand

\* C4's case: the workspace select failed and the main command was run
C4_Witness ==
  /\ IsTerraform
  /\ pc = "returned"
  /\ WorkspaceGiven
  /\ Len(replies) = 2
  /\ replies[1].kind = "result" /\ ~replies[1].success
  /\ Len(calls) = 2 /\ calls[2] = MainCommand

\* C5: for every IaC handler invocation, tool_calls_used of the NodeResult
\* equals the number of commands the invocation issued to the executor, also
\* when the operation is unrecognized after a workspace select was issued.
C5_ToolCallsCountIssued ==
  IsTerraform /\ pc = "returned" => result.tool_calls_used = Len(calls)

\* C6: for both handlers, when the executor answers the main command with
\* success=false, the NodeResult is Failed and its error is the error of the
\* executor's result.
C6_FailureCarriesExecutorError ==
  MainAnswered /\ ~MainReply.success =>
    /\ result.status = FAILED
    /\ result.error = MainReply.error

\* a string parameter of the node, defaulted when absent
Param(k, default) ==
  IF k \in DOMAIN node.input_mapping THEN node.input_mapping[k].s ELSE default

\* C16: for the container handler, an operation outside {build, push, pull,
\* run, stop} yields a Failed NodeResult with error exactly
\* "Unknown operation: {op}", issues no command to the executor, writes
\* nothing to the context, and raises no exception.
C16_UnknownContainerOperation ==
  /\ [](IsContainer /\ Param("operation", "build") \notin {"build", "push", "pull", "run", "stop"}
          => /\ pc = "returned"
             /\ result.status = FAILED
             /\ result.error = S("Unknown operation: " \o Param("operation", "build"))
             /\ result.output = None
             /\ calls = << >>
             /\ raised = None)
  /\ [][handler' = "container_ops" /\ ~RecognizedOperation' => ctx' = ctx]_vars

\* C16's case: "restart" has been refused with a context that held entries
C16_Witness ==
  /\ IsContainer
  /\ pc = "returned"
  /\ Param("operation", "build") = "restart"
  /\ result.error = S("Unknown operation: restart")
  /\ calls = << >>
  /\ DOMAIN ctx # {}

\* C17: for the container handler and a recognized operation, each
\* invocation issues exactly one command to the executor, and when the
\* executor returns, the NodeResult is Completed iff the executor result's
\* success is true (Failed otherwise), output.success equals the executor's
\* success, and tool_calls_used is 1.
C17_ContainerOneCommandMirrored ==
  IsContainer /\ RecognizedOperation =>
    /\ Len(calls) = 1
    /\ MainAnswered =>
         /\ result.status = COMPLETED <=> MainReply.success
         /\ result.status = FAILED <=> ~MainReply.success
         /\ result.output.d["success"] = B(MainReply.success)
         /\ result.tool_calls_used = 1

\* C17's case: the one command of a push failed and the result is Failed
C17_Witness ==
  /\ IsContainer
  /\ MainAnswered
  /\ NodeOperation = S("push")
  /\ ~MainReply.success
  /\ Len(calls) = 1
  /\ result.status = FAILED
  /\ result.output.d["success"] = B(FALSE)

\* the key C18 names: output_key, the node's identifier when it is absent or empty
ClaimedKey == IF node.output_key \in {None, S("")} THEN node.id ELSE node.output_key.s

\* C18: for both handlers, whenever the main command's executor call
\* returns (with success true or false), the handler writes the NodeResult's
\* output map into the context under the node's output_key, or under the
\* node's own identifier when output_key is absent or empty, and changes no
\* other context key; every other step (an unrecognized operation, a raising
\* executor, the workspace select) leaves the context unchanged.
C18_ContextWrittenOnReturn ==
  [][IF /\ pc = "main" /\ pc' = "returned"
        /\ replies'[Len(replies')].kind = "result"
     THEN /\ DOMAIN ctx' = DOMAIN ctx \cup {ClaimedKey}
          /\ ctx'[ClaimedKey] = result'.output
          /\ result'.output.t = "dict"
          /\ \A k \in DOMAIN ctx \ {ClaimedKey} : ctx'[k] = ctx[k]
     ELSE ctx' = ctx]_vars

\* C18's case: a failed main command under an empty output_key: the output
\* stands under the node's identifier, the other entries are as they were
C18_Witness ==
  /\ MainAnswered
  /\ ~MainReply.success
  /\ node.output_key = S("")
  /\ DOMAIN ctx = {"unrelated", "result", "build_image", "apply_infra"}
  /\ ctx[node.id] = result.output
  /\ \A k \in DOMAIN ctx \ {node.id} : ctx[k] \in {S("kept"), S("stale")}

\* C19: the container handler constructed with runtime {bin} synthesizes
\* exactly: build -> "{bin} build -f {dockerfile} -t {tag} ." (dockerfile
\* "Dockerfile" and tag "latest" when absent), push -> "{bin} push {tag}",
\* pull -> "{bin} pull {image}", run -> "{bin} run -d {image}", stop ->
\* "{bin} stop {container_id}"; the binary is always the handler's
\* configured runtime, docker by default, podman when so constructed.
C19_ContainerCommands ==
  /\ ContainerRuntime(<< >>) = "docker"
  /\ ContainerRuntime([runtime |-> "podman"]) = "podman"
  /\ IsContainer /\ RecognizedOperation =>
       LET op == Param("operation", "build")
       IN  /\ bin \in {"docker", "podman"}
           /\ op = "build" =>
                calls = <<bin \o " build -f " \o Param("dockerfile", "Dockerfile")
                              \o " -t " \o Param("tag", "latest") \o " .">>
           /\ op = "push" => calls = <<bin \o " push " \o Param("tag", "latest")>>
           /\ op = "pull" => calls = <<bin \o " pull " \o Param("image", "")>>
           /\ op = "run" => calls = <<bin \o " run -d " \o Param("image", "")>>
           /\ op = "stop" => calls = <<bin \o " stop " \o Param("container_id", "")>>

\* C19's case: a podman handler has built myapp:v1 from the default Dockerfile
C19_Witness ==
  /\ IsContainer
  /\ bin = "podman"
  /\ pc = "returned"
  /\ "operation" \in DOMAIN node.input_mapping
  /\ calls = <<"podman build -f Dockerfile -t myapp:v1 .">>

AutoApprove ==
  /\ "auto_approve" \in DOMAIN node.input_mapping
  /\ node.input_mapping["auto_approve"] = B(TRUE)

\* C20: the IaC handler constructed with binary {bin} synthesizes the main
\* command as: init -> "{bin} init"; plan -> "{bin} plan -out=tfplan";
\* apply -> "{bin} apply -auto-approve" when auto_approve is true and
\* "{bin} apply tfplan" otherwise (also when auto_approve is absent);
\* destroy -> "{bin} destroy -auto-approve" iff auto_approve is true and
\* the bare "{bin} destroy" otherwise.
C20_TerraformMainCommand ==
  IsTerraform /\ RecognizedOperation /\ pc \in {"main", "returned"} =>
    LET op == Param("operation", "plan")
        cmd == calls[Len(calls)]
    IN  /\ op = "init" => cmd = bin \o " init"
        /\ op = "plan" => cmd = bin \o " plan -out=tfplan"
        /\ op = "apply" /\ AutoApprove => cmd = bin \o " apply -auto-approve"
        /\ op = "apply" /\ ~AutoApprove => cmd = bin \o " apply tfplan"
        /\ op = "destroy" =>
             /\ cmd = bin \o " destroy -auto-approve" <=> AutoApprove
             /\ cmd = bin \o " destroy" <=> ~AutoApprove

\* C20's case: a destroy without auto_approve has run as the bare command
C20_Witness ==
  /\ IsTerraform
  /\ pc = "returned"
  /\ RecognizedOperation
  /\ "auto_approve" \notin DOMAIN node.input_mapping
  /\ bin = "tofu"
  /\ Len(calls) = 2
  /\ calls[2] = "tofu destroy"


----------------------------------------------------------------------------
(* capabilities.py: the configure_* functions and get_container_settings.  *)
(* A config is a mapping from setting to value. An orchestrator is its     *)
(* config service (a dict from capability name to config, or NoService)    *)
(* and its attributes (a mapping from attribute name to value).            *)

_DEPLOYMENT_SAFETY_DEFAULTS ==
  [require_approval_for_production |-> B(TRUE),
   require_backup_before_deploy |-> B(TRUE),
   enable_rollback |-> B(TRUE),
   protected_environments |-> L(<<"production", "staging">>)]
_CONTAINER_DEFAULTS ==
  [runtime |-> S("docker"),
   default_registry |-> None,
   security_scan_enabled |-> B(TRUE),
   max_image_size_mb |-> Whole(2000)]
_INFRASTRUCTURE_DEFAULTS ==
  [iac_tool |-> S("terraform"),
   auto_approve_non_destructive |-> B(FALSE),
   require_plan_before_apply |-> B(TRUE),
   state_backend |-> None]
_CICD_DEFAULTS ==
  [platform |-> S("github_actions"),
   run_tests_before_deploy |-> B(TRUE),
   require_passing_checks |-> B(TRUE),
   enable_security_scan |-> B(TRUE)]
_MONITORING_DEFAULTS ==
  [metrics_backend |-> S("prometheus"),
   logging_backend |-> S("loki"),
   alerting_enabled |-> B(TRUE),
   dashboard_tool |-> S("grafana")]

\* get_optional(CapabilityConfigService) yields None
NoService == None

\* mapping[key] = value
SetItem(m, key, value) ==
  [k \in DOMAIN m \cup {key} |-> IF k = key THEN value ELSE m[k]]

\* {**defaults, **stored}
Merged(defaults, stored) ==
  [k \in DOMAIN defaults \cup DOMAIN stored |->
     IF k \in DOMAIN stored THEN stored[k] ELSE defaults[k]]

\* victor.framework.capability_config_helpers.store_capability_config: the
\* config goes to the config service when the orchestrator's service
\* container yields one, and only otherwise onto the attribute fallback_attr
\* (the capability's name when None); returns whether the service took it
store_capability_config(o, name, config, fallback_attr) ==
  IF o.service # NoService
  THEN [orchestrator |-> [o EXCEPT !.service = D(SetItem(@.d, name, config))],
        service_stored |-> TRUE]
  ELSE [orchestrator |->
          [o EXCEPT !.attrs = SetItem(@, IF fallback_attr = None THEN name
                                         ELSE fallback_attr.s, config)],
        service_stored |-> FALSE]

\* victor.framework.capability_config_helpers.load_capability_config: the
\* defaults under what the backend at hand holds for the capability
load_capability_config(o, name, defaults) ==
  LET stored == IF o.service # NoService THEN Get(o.service.d, name, << >>)
                ELSE Get(o.attrs, name, << >>)
  IN  Merged(defaults, stored)

\* a keyword argument the function does not declare is a TypeError
Accepts(defaults, kwargs) == DOMAIN kwargs \subseteq DOMAIN defaults

\* configure_deployment_safety writing safety_config whether or not the
\* service took the config
configure_deployment_safety_both(o, kwargs) ==
  LET protected_environments == Get(kwargs, "protected_environments", None)
      config ==
        [require_approval_for_production |->
           Get(kwargs, "require_approval_for_production", B(TRUE)),
         require_backup_before_deploy |-> Get(kwargs, "require_backup_before_deploy", B(TRUE)),
         enable_rollback |-> Get(kwargs, "enable_rollback", B(TRUE)),
         protected_environments |->
           IF Truthy(protected_environments) THEN protected_environments
           ELSE L(<<"production", "staging">>)]
      stored == store_capability_config(o, "deployment_safety", config, None)
  IN  IF "safety_config" \in DOMAIN stored.orchestrator.attrs
      THEN [stored.orchestrator EXCEPT !.attrs["safety_config"] =
              SetItem(@, "deployment", config)]
      ELSE stored.orchestrator

configure_deployment_safety(o, kwargs) ==
  LET require_approval_for_production ==
        Get(kwargs, "require_approval_for_production", B(TRUE))
      require_backup_before_deploy == Get(kwargs, "require_backup_before_deploy", B(TRUE))
      enable_rollback == Get(kwargs, "enable_rollback", B(TRUE))
      protected_environments == Get(kwargs, "protected_environments", None)
      config ==
        [require_approval_for_production |-> require_approval_for_production,
         require_backup_before_deploy |-> require_backup_before_deploy,
         enable_rollback |-> enable_rollback,
         protected_environments |->
           IF Truthy(protected_environments) THEN protected_environments
           ELSE L(<<"production", "staging">>)]
      stored == store_capability_config(o, "deployment_safety", config, None)
  IN  IF ~stored.service_stored /\ "safety_config" \in DOMAIN stored.orchestrator.attrs
      THEN [stored.orchestrator EXCEPT !.attrs["safety_config"] =
              SetItem(@, "deployment",
                [require_approval_for_production |-> require_approval_for_production,
                 require_backup_before_deploy |-> require_backup_before_deploy,
                 enable_rollback |-> enable_rollback,
                 protected_environments |->
                   IF Truthy(protected_environments) THEN protected_environments
                   ELSE L(<<"production", "staging">>)])]
      ELSE stored.orchestrator

\* configure_container_settings laying the given settings over the stored ones
configure_container_settings_over_stored(o, kwargs) ==
  store_capability_config(o, "container_config",
    Merged(load_capability_config(o, "container_config", _CONTAINER_DEFAULTS), kwargs),
    None).orchestrator

configure_container_settings(o, kwargs) ==
  store_capability_config(o, "container_config",
    [runtime |-> Get(kwargs, "runtime", S("docker")),
     default_registry |-> Get(kwargs, "default_registry", None),
     security_scan_enabled |-> Get(kwargs, "security_scan_enabled", B(TRUE)),
     max_image_size_mb |-> Get(kwargs, "max_image_size_mb", Whole(2000))],
    None).orchestrator

\* get_container_settings asking for the capability's name, not its config's
get_container_settings_by_capability(o) ==
  load_capability_config(o, "container_settings", _CONTAINER_DEFAULTS)

get_container_settings(o) ==
  load_capability_config(o, "container_config", _CONTAINER_DEFAULTS)

configure_infrastructure_settings(o, kwargs) ==
  store_capability_config(o, "infrastructure_config",
    [iac_tool |-> Get(kwargs, "iac_tool", S("terraform")),
     auto_approve_non_destructive |-> Get(kwargs, "auto_approve_non_destructive", B(FALSE)),
     require_plan_before_apply |-> Get(kwargs, "require_plan_before_apply", B(TRUE)),
     state_backend |-> Get(kwargs, "state_backend", None)],
    S("infra_config")).orchestrator

configure_cicd_settings(o, kwargs) ==
  store_capability_config(o, "cicd_config",
    [platform |-> Get(kwargs, "platform", S("github_actions")),
     run_tests_before_deploy |-> Get(kwargs, "run_tests_before_deploy", B(TRUE)),
     require_passing_checks |-> Get(kwargs, "require_passing_checks", B(TRUE)),
     enable_security_scan |-> Get(kwargs, "enable_security_scan", B(TRUE))],
    None).orchestrator

configure_monitoring_settings(o, kwargs) ==
  store_capability_config(o, "monitoring_config",
    [metrics_backend |-> Get(kwargs, "metrics_backend", S("prometheus")),
     logging_backend |-> Get(kwargs, "logging_backend", S("loki")),
     alerting_enabled |-> Get(kwargs, "alerting_enabled", B(TRUE)),
     dashboard_tool |-> Get(kwargs, "dashboard_tool", S("grafana"))],
    None).orchestrator

----------------------------------------------------------------------------
(* The orchestrators handed to the capabilities, and the calls made. *)

LegacyAttrs ==
  {"safety_config", "container_config", "infra_config", "cicd_config", "monitoring_config"}

\* the orchestrators of the tests, and a service-backed one that still
\* carries the legacy attributes
Orchestrators ==
  {[service |-> EmptyDict, attrs |-> << >>],
   [service |-> EmptyDict, attrs |-> [a \in LegacyAttrs |-> << >>]],
   [service |-> NoService, attrs |-> [a \in LegacyAttrs |-> << >>]],
   [service |-> NoService,
    attrs |-> [a \in {"container_config", "infra_config", "safety_config"} |-> << >>]],
   [service |-> NoService, attrs |-> << >>]}

SafetyKwargs ==
  {Strip(f) : f \in [require_backup_before_deploy : {Absent, B(FALSE)},
                     protected_environments :
                       {Absent, None, L(<< >>), L(<<"prod", "uat">>)}]}
ContainerKwargs ==
  {Strip(f) : f \in [runtime : {Absent, S("podman")},
                     default_registry : {Absent, S("registry.example.com")},
                     security_scan_enabled : {Absent, B(FALSE)},
                     max_image_size_mb : {Absent, Whole(500)}]}
InfrastructureKwargs ==
  {Strip(f) : f \in [iac_tool : {Absent, S("opentofu")},
                     state_backend : {Absent, S("s3")}]}
CicdKwargs == {Strip(f) : f \in [platform : {Absent, S("gitlab_ci")}]}
MonitoringKwargs == {Strip(f) : f \in [alerting_enabled : {Absent, B(FALSE)}]}

CapabilityInit ==
  /\ ctx = << >>
  /\ NoGate
  /\ NoInvocation
  /\ orchestrator \in Orchestrators
  /\ last_call = None
  /\ NoConcurrency
  /\ NoProvider
  /\ NoToolGraph

ConfigureDeploymentSafety ==
  /\ orchestrator # None
  /\ \E kwargs \in SafetyKwargs :
       /\ orchestrator' = configure_deployment_safety(orchestrator, kwargs)
       /\ last_call' = [fn |-> "configure_deployment_safety", kwargs |-> kwargs,
                        returned |-> None]
  /\ UNCHANGED <<ctx, gateVars, handlerVars, concurrentVars, providerVars, graphVars>>

ConfigureContainerSettings ==
  /\ orchestrator # None
  /\ \E kwargs \in ContainerKwargs :
       /\ orchestrator' = configure_container_settings(orchestrator, kwargs)
       /\ last_call' = [fn |-> "configure_container_settings", kwargs |-> kwargs,
                        returned |-> None]
  /\ UNCHANGED <<ctx, gateVars, handlerVars, concurrentVars, providerVars, graphVars>>

GetContainerSettings ==
  /\ orchestrator # None
  /\ last_call' = [fn |-> "get_container_settings", kwargs |-> << >>,
                   returned |-> D(get_container_settings(orchestrator))]
  /\ UNCHANGED <<ctx, gateVars, handlerVars, concurrentVars, providerVars, graphVars, orchestrator>>

ConfigureInfrastructureSettings ==
  /\ orchestrator # None
  /\ \E kwargs \in InfrastructureKwargs :
       /\ orchestrator' = configure_infrastructure_settings(orchestrator, kwargs)
       /\ last_call' = [fn |-> "configure_infrastructure_settings", kwargs |-> kwargs,
                        returned |-> None]
  /\ UNCHANGED <<ctx, gateVars, handlerVars, concurrentVars, providerVars, graphVars>>

ConfigureCicdSettings ==
  /\ orchestrator # None
  /\ \E kwargs \in CicdKwargs :
       /\ orchestrator' = configure_cicd_settings(orchestrator, kwargs)
       /\ last_call' = [fn |-> "configure_cicd_settings", kwargs |-> kwargs,
                        returned |-> None]
  /\ UNCHANGED <<ctx, gateVars, handlerVars, concurrentVars, providerVars, graphVars>>

ConfigureMonitoringSettings ==
  /\ orchestrator # None
  /\ \E kwargs \in MonitoringKwargs :
       /\ orchestrator' = configure_monitoring_settings(orchestrator, kwargs)
       /\ last_call' = [fn |-> "configure_monitoring_settings", kwargs |-> kwargs,
                        returned |-> None]
  /\ UNCHANGED <<ctx, gateVars, handlerVars, concurrentVars, providerVars, graphVars>>

CapabilityNext ==
  \/ ConfigureDeploymentSafety
  \/ ConfigureContainerSettings
  \/ GetContainerSettings
  \/ ConfigureInfrastructureSettings
  \/ ConfigureCicdSettings
  \/ ConfigureMonitoringSettings

SpecCapabilities == CapabilityInit /\ [][CapabilityNext]_vars

----------------------------------------------------------------------------
(* Properties of the capability configuration (SpecCapabilities) *)

ConfigureFns ==
  {"configure_deployment_safety", "configure_container_settings",
   "configure_infrastructure_settings", "configure_cicd_settings",
   "configure_monitoring_settings"}

\* the name a configure function stores under in the config service
ServiceNameOf(fn) ==
  CASE fn = "configure_deployment_safety" -> "deployment_safety"
    [] fn = "configure_container_settings" -> "container_config"
    [] fn = "configure_infrastructure_settings" -> "infrastructure_config"
    [] fn = "configure_cicd_settings" -> "cicd_config"
    [] fn = "configure_monitoring_settings" -> "monitoring_config"

\* the legacy attribute of a configure function
LegacyAttrOf(fn) ==
  CASE fn = "configure_deployment_safety" -> "safety_config"
    [] fn = "configure_container_settings" -> "container_config"
    [] fn = "configure_infrastructure_settings" -> "infra_config"
    [] fn = "configure_cicd_settings" -> "cicd_config"
    [] fn = "configure_monitoring_settings" -> "monitoring_config"

DefaultsOf(fn) ==
  CASE fn = "configure_deployment_safety" -> _DEPLOYMENT_SAFETY_DEFAULTS
    [] fn = "configure_container_settings" -> _CONTAINER_DEFAULTS
    [] fn = "configure_infrastructure_settings" -> _INFRASTRUCTURE_DEFAULTS
    [] fn = "configure_cicd_settings" -> _CICD_DEFAULTS
    [] fn = "configure_monitoring_settings" -> _MONITORING_DEFAULTS

\* the settings table the legacy attribute of fn holds on o (deployment
\* safety keeps it under safety_config["deployment"]), << >> when it holds none
LegacyTable(o, fn) ==
  LET attr == LegacyAttrOf(fn)
  IN  IF attr \notin DOMAIN o.attrs THEN << >>
      ELSE IF fn = "configure_deployment_safety"
           THEN Get(o.attrs[attr], "deployment", << >>)
           ELSE o.attrs[attr]

\* C21: every configure_* call writes exactly one of the two storage homes
\* and never both: when the orchestrator's service locator yields a config
\* service, the settings go to the service-backed store and the legacy
\* attribute (safety_config, container_config, infra_config, cicd_config,
\* monitoring_config) is left unchanged even if it exists; only when no
\* service is available is the legacy attribute written.
C21_OneStorageHome ==
  [][last_call'.fn \in ConfigureFns =>
       LET fn == last_call'.fn
           keys == DOMAIN DefaultsOf(fn)
       IN  IF orchestrator.service # None
           THEN /\ orchestrator'.attrs = orchestrator.attrs
                /\ ServiceNameOf(fn) \in DOMAIN orchestrator'.service.d
                /\ DOMAIN orchestrator'.service.d[ServiceNameOf(fn)] = keys
           ELSE /\ orchestrator'.service = None
                /\ LegacyAttrOf(fn) \in DOMAIN orchestrator.attrs
                     => DOMAIN LegacyTable(orchestrator', fn) = keys]_vars

\* C21's case: deployment safety went to the service of an orchestrator that
\* has the legacy attributes too, and safety_config is as empty as before
C21_Witness ==
  /\ last_call # None
  /\ last_call.fn = "configure_deployment_safety"
  /\ orchestrator.service # None
  /\ "deployment_safety" \in DOMAIN orchestrator.service.d
  /\ "safety_config" \in DOMAIN orchestrator.attrs
  /\ orchestrator.attrs["safety_config"] = << >>

\* the keyword arguments that override a setting: a protected_environments
\* of None is the parameter's own default
Overrides(kwargs) ==
  [k \in {j \in DOMAIN kwargs : ~(j = "protected_environments" /\ kwargs[j] = None)}
     |-> kwargs[k]]

\* C22: when no service-backed store is reachable, a configure_* call with
\* only some settings overridden leaves the legacy attribute holding the
\* full settings table: every key of the capability's default table is
\* present, the supplied overrides take precedence and every other key is
\* at its default (infra_config for infrastructure settings,
\* safety_config["deployment"] for deployment safety).
C22_LegacyHoldsFullTable ==
  /\ last_call # None
  /\ last_call.fn \in ConfigureFns
  /\ orchestrator.service = None
  /\ LegacyAttrOf(last_call.fn) \in DOMAIN orchestrator.attrs
  => LegacyTable(orchestrator, last_call.fn)
       = Merged(DefaultsOf(last_call.fn), Overrides(last_call.kwargs))

\* the container config the orchestrator's backend holds, << >> when none
StoredContainerConfig(o) ==
  IF o.service # None THEN Get(o.service.d, "container_config", << >>)
  ELSE Get(o.attrs, "container_config", << >>)

\* the four container settings of a call with these keyword arguments
ContainerSettingsOf(kwargs) ==
  [runtime |-> IF "runtime" \in DOMAIN kwargs THEN kwargs["runtime"] ELSE S("docker"),
   default_registry |->
     IF "default_registry" \in DOMAIN kwargs THEN kwargs["default_registry"] ELSE None,
   security_scan_enabled |->
     IF "security_scan_enabled" \in DOMAIN kwargs THEN kwargs["security_scan_enabled"]
     ELSE B(TRUE),
   max_image_size_mb |->
     IF "max_image_size_mb" \in DOMAIN kwargs THEN kwargs["max_image_size_mb"]
     ELSE N(2000 * 1000)]

\* C23: get_container_settings returns the container defaults {runtime:
\* docker, default_registry: null, security_scan_enabled: true,
\* max_image_size_mb: 2000} unchanged when neither backend holds data for
\* the orchestrator, and after configure_container_settings it returns the
\* values stored by that call, whichever backend the orchestrator offers.
C23_GetReturnsStoredOrDefaults ==
  [][last_call'.fn = "get_container_settings" =>
       /\ StoredContainerConfig(orchestrator) = << >>
            => last_call'.returned = D(ContainerSettingsOf(<< >>))
       /\ last_call # None /\ last_call.fn = "configure_container_settings"
            => last_call'.returned = D(ContainerSettingsOf(last_call.kwargs))]_vars

\* C23's case: podman, stored in the service of an orchestrator that has a
\* container_config attribute too, has been read back
C23_Witness ==
  /\ last_call # None
  /\ last_call.fn = "get_container_settings"
  /\ orchestrator.service # None
  /\ "container_config" \in DOMAIN orchestrator.attrs
  /\ last_call.returned.d["runtime"] = S("podman")
  /\ last_call.returned.d["max_image_size_mb"] = N(2000 * 1000)

\* C28: after any sequence of configure_container_settings calls on one
\* orchestrator, the stored container config equals the settings of the
\* last call alone: each call replaces all four settings, so a setting an
\* earlier call overrode and the later call does not name is back at its
\* default; no other call changes or deletes the entry.
C28_LastContainerCallAlone ==
  [][IF last_call'.fn = "configure_container_settings"
     THEN StoredContainerConfig(orchestrator') = ContainerSettingsOf(last_call'.kwargs)
     ELSE StoredContainerConfig(orchestrator') = StoredContainerConfig(orchestrator)]_vars

\* C28's case: the last call named the image size alone and podman, if an
\* earlier call chose it, is gone
C28_Witness ==
  /\ last_call # None
  /\ last_call.fn = "configure_container_settings"
  /\ DOMAIN last_call.kwargs = {"max_image_size_mb"}
  /\ StoredContainerConfig(orchestrator)["runtime"] = S("docker")
  /\ StoredContainerConfig(orchestrator)["max_image_size_mb"] = N(500 * 1000)
  /\ orchestrator.service = None
  /\ DOMAIN LegacyTable(orchestrator, "configure_infrastructure_settings") # {}

----------------------------------------------------------------------------
(* escape_hatches.py: the transform merge_deployment_results *)

\* merge_deployment_results with the docs task required like the other two
merge_deployment_results_docs_required(c) ==
  LET monitoring_result == Get(c, "monitoring_result", EmptyDict)
      notification_result == Get(c, "notification_result", EmptyDict)
      docs_result == Get(c, "docs_result", EmptyDict)
  IN  IF \E r \in {monitoring_result, notification_result, docs_result} : ~IsDict(r)
      THEN AttributeError
      ELSE D([all_tasks_complete |-> B(TRUE),
              all_tasks_success |->
                B(/\ Truthy(Get(monitoring_result.d, "success", B(FALSE)))
                  /\ Truthy(Get(notification_result.d, "success", B(FALSE)))
                  /\ Truthy(Get(docs_result.d, "success", B(FALSE)))),
              monitoring_updated |-> Get(monitoring_result.d, "success", B(FALSE)),
              notification_sent |-> Get(notification_result.d, "success", B(FALSE)),
              docs_updated |-> Get(docs_result.d, "success", B(FALSE))])

merge_deployment_results(c) ==
  LET monitoring_result == Get(c, "monitoring_result", EmptyDict)
      notification_result == Get(c, "notification_result", EmptyDict)
      docs_result == Get(c, "docs_result", EmptyDict)
  IN  IF \E r \in {monitoring_result, notification_result, docs_result} : ~IsDict(r)
      THEN AttributeError
      ELSE D([all_tasks_complete |-> B(TRUE),
              all_tasks_success |->
                B(/\ Truthy(Get(monitoring_result.d, "success", B(FALSE)))
                  /\ Truthy(Get(notification_result.d, "success", B(FALSE)))
                  /\ Truthy(Get(docs_result.d, "success", B(TRUE)))),
              monitoring_updated |-> Get(monitoring_result.d, "success", B(FALSE)),
              notification_sent |-> Get(notification_result.d, "success", B(FALSE)),
              docs_updated |-> Get(docs_result.d, "success", B(FALSE))])

\* what a parallel task left in the context: nothing, an empty result, a
\* success flag (a bool, or the string a task may report), or None
TaskResults ==
  {Absent, EmptyDict, D([success |-> B(TRUE)]), D([success |-> B(FALSE)]),
   D([success |-> S("yes")]), D([success |-> B(TRUE), url |-> S("https://wiki")]), None}

MergeContexts ==
  {Strip(f) : f \in [monitoring_result : TaskResults,
                     notification_result : TaskResults,
                     docs_result : TaskResults]}

TransformInit ==
  /\ ctx \in MergeContexts
  /\ NoGate
  /\ NoInvocation
  /\ NothingElse

CallMergeDeploymentResults ==
  /\ gate' = "merge_deployment_results"
  /\ verdict' = merge_deployment_results(ctx)
  /\ UNCHANGED <<ctx, handlerVars, otherVars>>

TransformNext == CallMergeDeploymentResults

SpecTransforms == TransformInit /\ [][TransformNext]_vars

----------------------------------------------------------------------------
(* Properties of the transforms (SpecTransforms) *)

\* the three task results are dicts where present
TaskResultsAreDicts ==
  \A k \in DOMAIN ctx : ctx[k].t = "dict"

\* the success flag of a task, with the default the claim gives it
SuccessOf(k, default) ==
  IF k \in DOMAIN ctx /\ "success" \in DOMAIN ctx[k].d
  THEN ctx[k].d["success"] ELSE B(default)

\* C24: merge_deployment_results sets all_tasks_success to the conjunction
\* of monitoring_result.success (default false), notification_result.success
\* (default false) and docs_result.success (default true: an absent docs
\* task does not fail the merge); all_tasks_complete is always true;
\* monitoring_updated and notification_sent equal the respective success
\* flags; docs_updated equals docs_result.success with default false, so
\* all_tasks_success implies monitoring_updated and notification_sent but
\* not docs_updated. The context is not modified.
C24_MergeDeploymentResults ==
  /\ [](gate = "merge_deployment_results" /\ TaskResultsAreDicts =>
          /\ DOMAIN verdict.d = {"all_tasks_complete", "all_tasks_success",
                                 "monitoring_updated", "notification_sent", "docs_updated"}
          /\ verdict.d["all_tasks_complete"] = B(TRUE)
          /\ verdict.d["all_tasks_success"] =
               B(/\ Truthy(SuccessOf("monitoring_result", FALSE))
                 /\ Truthy(SuccessOf("notification_result", FALSE))
                 /\ Truthy(SuccessOf("docs_result", TRUE)))
          /\ verdict.d["monitoring_updated"] = SuccessOf("monitoring_result", FALSE)
          /\ verdict.d["notification_sent"] = SuccessOf("notification_result", FALSE)
          /\ verdict.d["docs_updated"] = SuccessOf("docs_result", FALSE)
          /\ verdict.d["all_tasks_success"] = B(TRUE) =>
               /\ Truthy(verdict.d["monitoring_updated"])
               /\ Truthy(verdict.d["notification_sent"]))
  /\ [][ctx' = ctx]_vars

\* C24's case: no docs task ran, the other two succeeded: the merge is a
\* success although docs_updated is false
C24_Witness ==
  /\ gate = "merge_deployment_results"
  /\ DOMAIN ctx = {"monitoring_result", "notification_result"}
  /\ TaskResultsAreDicts
  /\ verdict.d["all_tasks_success"] = B(TRUE)
  /\ verdict.d["docs_updated"] = B(FALSE)
  /\ verdict.d["monitoring_updated"] = B(TRUE)

----------------------------------------------------------------------------
(* handlers.py: TerraformHandler invocations of different nodes run side   *)
(* by side by the scheduler. All go through the one handler HANDLERS       *)
(* registers and the one executor; an invocation gives way at each await   *)
(* of tool_registry.execute.                                               *)

\* the command invocation i hands to the executor
Handed(i, cmd) == [by |-> i, cmd |-> cmd]

\* TerraformHandler.__call__ of invocation i from the if / elif chain to the
\* await of the main command
ConcurrentMainStep(i) ==
  LET n == invocations[i].node
      operation == Get(n.input_mapping, "operation", S("plan"))
  IN  IF Recognized(operation, TerraformOperations)
      THEN /\ executor' = Append(executor,
                                 Handed(i, TerraformCommand("terraform", n.input_mapping)))
           /\ invocations' = [invocations EXCEPT ![i].pc = "main"]
      ELSE /\ invocations' = [invocations EXCEPT ![i].pc = "returned",
                                ![i].result = UnknownOperation(n, operation)]
           /\ UNCHANGED executor

\* invocation i is called: to its first await or its early return
ConcurrentCall(i) ==
  /\ invocations[i].pc = "idle"
  /\ LET n == invocations[i].node
         workspace == Get(n.input_mapping, "workspace", None)
     IN  IF Truthy(workspace)
         THEN /\ executor' = Append(executor,
                                    Handed(i, WorkspaceSelectCommand("terraform", workspace)))
              /\ invocations' = [invocations EXCEPT ![i].pc = "workspace_select"]
         ELSE ConcurrentMainStep(i)
  /\ UNCHANGED <<ctx, gateVars, handlerVars, capabilityVars, providerVars, graphVars>>

\* the workspace select of invocation i has been answered
ConcurrentSelectReturns(i, r) ==
  /\ invocations[i].pc = "workspace_select"
  /\ LET n == invocations[i].node
         operation == Get(n.input_mapping, "operation", S("plan"))
     IN  IF Recognized(operation, TerraformOperations)
         THEN /\ executor' = Append(executor,
                                    Handed(i, TerraformCommand("terraform", n.input_mapping)))
              /\ invocations' = [invocations EXCEPT ![i].pc = "main",
                                   ![i].tool_calls = @ + 1]
         ELSE /\ invocations' = [invocations EXCEPT ![i].pc = "returned",
                                   ![i].tool_calls = @ + 1,
                                   ![i].result = UnknownOperation(n, operation)]
              /\ UNCHANGED executor
  /\ UNCHANGED <<ctx, gateVars, handlerVars, capabilityVars, providerVars, graphVars>>

\* the workspace select of invocation i has raised
ConcurrentSelectRaises(i, msg) ==
  /\ invocations[i].pc = "workspace_select"
  /\ invocations' = [invocations EXCEPT ![i].pc = "raised", ![i].raised = S(msg)]
  /\ UNCHANGED <<ctx, gateVars, handlerVars, capabilityVars, providerVars, graphVars, executor>>

\* the main command of invocation i has been answered
ConcurrentMainReturns(i, r) ==
  /\ invocations[i].pc = "main"
  /\ LET n == invocations[i].node
         counted == invocations[i].tool_calls + 1
         output == D([operation |-> Get(n.input_mapping, "operation", S("plan")),
                      workspace |-> Get(n.input_mapping, "workspace", None),
                      success |-> B(r.success), output |-> r.output])
     IN  /\ ctx' = ContextSet(ctx, OutputKey(n), output)
         /\ invocations' =
              [invocations EXCEPT ![i].pc = "returned", ![i].tool_calls = counted,
                 ![i].result =
                   [NodeResult(n.id, IF r.success THEN COMPLETED ELSE FAILED)
                      EXCEPT !.output = output, !.tool_calls_used = counted]]
  /\ UNCHANGED <<gateVars, handlerVars, capabilityVars, providerVars, graphVars, executor>>

\* the main command of invocation i has raised
ConcurrentMainRaises(i, msg) ==
  /\ invocations[i].pc = "main"
  /\ invocations' =
       [invocations EXCEPT ![i].pc = "returned",
          ![i].result = [NodeResult(invocations[i].node.id, FAILED) EXCEPT !.error = S(msg)]]
  /\ UNCHANGED <<ctx, gateVars, handlerVars, capabilityVars, providerVars, graphVars, executor>>

\* two nodes of one workflow, each with a workspace of its own
StagingNodes ==
  {[id |-> "plan_staging", input_mapping |-> Strip(f), output_key |-> None] :
     f \in [operation : {Absent, S("apply"), S("refresh")},
            workspace : {S("staging")}]}
ProductionNodes ==
  {[id |-> "apply_production", input_mapping |-> Strip(f), output_key |-> None] :
     f \in [operation : {S("apply"), S("destroy")},
            workspace : {S("production")},
            auto_approve : {Absent, B(TRUE)}]}

Invocation(n) ==
  [node |-> n, pc |-> "idle", tool_calls |-> 0, result |-> None, raised |-> None]

ConcurrentInit ==
  /\ ctx = << >>
  /\ NoGate
  /\ NoInvocation
  /\ NoCapabilities
  /\ NoProvider
  /\ NoToolGraph
  /\ invocations \in {<<Invocation(a), Invocation(b)>> :
                        a \in StagingNodes, b \in ProductionNodes}
  /\ executor = << >>

SchedulerCalls == \E i \in DOMAIN invocations : ConcurrentCall(i)
SelectAnswered ==
  \E i \in DOMAIN invocations, r \in ExecutorResults : ConcurrentSelectReturns(i, r)
SelectFailed ==
  \E i \in DOMAIN invocations, msg \in ExecutorErrors : ConcurrentSelectRaises(i, msg)
MainCommandAnswered ==
  \E i \in DOMAIN invocations, r \in ExecutorResults : ConcurrentMainReturns(i, r)
MainCommandFailed ==
  \E i \in DOMAIN invocations, msg \in ExecutorErrors : ConcurrentMainRaises(i, msg)

ConcurrentNext ==
  \/ SchedulerCalls
  \/ SelectAnswered
  \/ SelectFailed
  \/ MainCommandAnswered
  \/ MainCommandFailed

SpecConcurrent == ConcurrentInit /\ [][ConcurrentNext]_vars

----------------------------------------------------------------------------
(* Properties of concurrent invocations (SpecConcurrent) *)

\* the k-th command the executor was handed is a workspace select
IsSelect(k) ==
  \E w \in {"staging", "production"} :
    executor[k].cmd = "terraform workspace select " \o w

\* C27: when two IaC handler invocations for different nodes, with
\* different workspace parameters, run concurrently against the same
\* executor (interleaving at each executor call), each invocation's main
\* command is executed while the workspace most recently selected on the
\* executor is that invocation's own: no other invocation's workspace
\* select is executed between an invocation's select and its main command.
C27_OwnWorkspaceAtMainCommand ==
  \A k \in 1..Len(executor) :
    ~IsSelect(k) =>
      \E j \in 1..(k - 1) :
        /\ IsSelect(j)
        /\ executor[j].by = executor[k].by
        /\ \A m \in (j + 1)..(k - 1) : ~IsSelect(m)

----------------------------------------------------------------------------
(* DevOpsCapabilityProvider: the apply_* methods, apply_all and get_applied.
   The provider's _applied attribute is the set object "_applied" of the
   heap; a set handed to the caller is an object of the heap too, so that
   whether the caller's set is the provider's own is a matter of the code. *)

\* DevOpsCapabilityProvider.__init__: self._applied = set()
NewProvider == [_applied |-> {}]

\* the names __init__ registers in self._capabilities
RegisteredCapabilities ==
  {"deployment_safety", "container_settings", "infrastructure_settings",
   "cicd_settings", "monitoring_settings"}

\* self._applied.add(name)
AppliedAdd(h, name) == [h EXCEPT !["_applied"] = @ \cup {name}]

\* the outcome of an apply method: the orchestrator and the heap it leaves,
\* and the exception it raised (None when it completed)
ApplyCompleted(o, h) == [orchestrator |-> o, heap |-> h, raised |-> None]
ApplyRaised(o, h, exc) == [orchestrator |-> o, heap |-> h, raised |-> S(exc)]

apply_deployment_safety(o, h, kwargs) ==
  IF ~Accepts(_DEPLOYMENT_SAFETY_DEFAULTS, kwargs) THEN ApplyRaised(o, h, "TypeError")
  ELSE ApplyCompleted(configure_deployment_safety(o, kwargs),
                 AppliedAdd(h, "deployment_safety"))

apply_container_settings(o, h, kwargs) ==
  IF ~Accepts(_CONTAINER_DEFAULTS, kwargs) THEN ApplyRaised(o, h, "TypeError")
  ELSE ApplyCompleted(configure_container_settings(o, kwargs),
                 AppliedAdd(h, "container_settings"))

apply_infrastructure_settings(o, h, kwargs) ==
  IF ~Accepts(_INFRASTRUCTURE_DEFAULTS, kwargs) THEN ApplyRaised(o, h, "TypeError")
  ELSE ApplyCompleted(configure_infrastructure_settings(o, kwargs),
                 AppliedAdd(h, "infrastructure_settings"))

apply_cicd_settings(o, h, kwargs) ==
  IF ~Accepts(_CICD_DEFAULTS, kwargs) THEN ApplyRaised(o, h, "TypeError")
  ELSE ApplyCompleted(configure_cicd_settings(o, kwargs),
                 AppliedAdd(h, "cicd_settings"))

apply_monitoring_settings(o, h, kwargs) ==
  IF ~Accepts(_MONITORING_DEFAULTS, kwargs) THEN ApplyRaised(o, h, "TypeError")
  ELSE ApplyCompleted(configure_monitoring_settings(o, kwargs),
                 AppliedAdd(h, "monitoring_settings"))

\* the five apply methods in order, each without keyword arguments; the
\* keyword arguments of apply_all itself are not passed on
apply_all(o, h, kwargs) ==
  LET safety == apply_deployment_safety(o, h, << >>)
      container == apply_container_settings(safety.orchestrator, safety.heap, << >>)
      infrastructure ==
        apply_infrastructure_settings(container.orchestrator, container.heap, << >>)
      cicd == apply_cicd_settings(infrastructure.orchestrator, infrastructure.heap, << >>)
  IN  apply_monitoring_settings(cicd.orchestrator, cicd.heap, << >>)

\* get_applied returning self._applied itself
get_applied_itself(h) == [heap |-> h, returned |-> "_applied"]

\* return self._applied.copy(): a new set object with the same members
get_applied(h) ==
  [heap |-> SetItem(h, "copy", h["_applied"]), returned |-> "copy"]

\* the MockOrchestrator of the provider's tests, and a service-backed one
ProviderOrchestrators ==
  {[service |-> NoService, attrs |-> [a \in LegacyAttrs |-> << >>]],
   [service |-> EmptyDict, attrs |-> << >>]}

\* a keyword argument no configure function declares
Undeclared == [dry_run |-> B(TRUE)]

ProviderInit ==
  /\ ctx = << >>
  /\ NoGate
  /\ NoInvocation
  /\ NoConcurrency
  /\ orchestrator \in ProviderOrchestrators
  /\ last_call = None
  /\ heap = NewProvider
  /\ held = "none"
  /\ NoToolGraph

ApplyDeploymentSafety ==
  /\ \E kwargs \in {<< >>, [require_backup_before_deploy |-> B(FALSE)], Undeclared} :
       LET out == apply_deployment_safety(orchestrator, heap, kwargs)
       IN  /\ orchestrator' = out.orchestrator
           /\ heap' = out.heap
           /\ last_call' = [fn |-> "apply_deployment_safety", kwargs |-> kwargs,
                            returned |-> None, raised |-> out.raised]
  /\ UNCHANGED <<ctx, gateVars, handlerVars, concurrentVars, graphVars, held>>

ApplyContainerSettings ==
  /\ \E kwargs \in {<< >>, [runtime |-> S("podman")], Undeclared} :
       LET out == apply_container_settings(orchestrator, heap, kwargs)
       IN  /\ orchestrator' = out.orchestrator
           /\ heap' = out.heap
           /\ last_call' = [fn |-> "apply_container_settings", kwargs |-> kwargs,
                            returned |-> None, raised |-> out.raised]
  /\ UNCHANGED <<ctx, gateVars, handlerVars, concurrentVars, graphVars, held>>

ApplyInfrastructureSettings ==
  /\ \E kwargs \in {<< >>, Undeclared} :
       LET out == apply_infrastructure_settings(orchestrator, heap, kwargs)
       IN  /\ orchestrator' = out.orchestrator
           /\ heap' = out.heap
           /\ last_call' = [fn |-> "apply_infrastructure_settings", kwargs |-> kwargs,
                            returned |-> None, raised |-> out.raised]
  /\ UNCHANGED <<ctx, gateVars, handlerVars, concurrentVars, graphVars, held>>

ApplyCicdSettings ==
  /\ \E kwargs \in {<< >>, Undeclared} :
       LET out == apply_cicd_settings(orchestrator, heap, kwargs)
       IN  /\ orchestrator' = out.orchestrator
           /\ heap' = out.heap
           /\ last_call' = [fn |-> "apply_cicd_settings", kwargs |-> kwargs,
                            returned |-> None, raised |-> out.raised]
  /\ UNCHANGED <<ctx, gateVars, handlerVars, concurrentVars, graphVars, held>>

ApplyMonitoringSettings ==
  /\ \E kwargs \in {<< >>, Undeclared} :
       LET out == apply_monitoring_settings(orchestrator, heap, kwargs)
       IN  /\ orchestrator' = out.orchestrator
           /\ heap' = out.heap
           /\ last_call' = [fn |-> "apply_monitoring_settings", kwargs |-> kwargs,
                            returned |-> None, raised |-> out.raised]
  /\ UNCHANGED <<ctx, gateVars, handlerVars, concurrentVars, graphVars, held>>

ApplyAll ==
  /\ \E kwargs \in {<< >>, Undeclared} :
       LET out == apply_all(orchestrator, heap, kwargs)
       IN  /\ orchestrator' = out.orchestrator
           /\ heap' = out.heap
           /\ last_call' = [fn |-> "apply_all", kwargs |-> kwargs,
                            returned |-> None, raised |-> out.raised]
  /\ UNCHANGED <<ctx, gateVars, handlerVars, concurrentVars, graphVars, held>>

\* the caller keeps the set get_applied returned
GetApplied ==
  /\ LET out == get_applied(heap)
     IN  /\ heap' = out.heap
         /\ held' = out.returned
         /\ last_call' = [fn |-> "get_applied", kwargs |-> << >>,
                          returned |-> S(out.returned), raised |-> None]
  /\ UNCHANGED <<ctx, gateVars, handlerVars, concurrentVars, graphVars, orchestrator>>

\* the caller changes the set it got: adds a name of its own, discards a
\* capability's name, or clears the set
CallerMutates ==
  /\ held # "none"
  /\ \E change \in {"add", "discard", "clear"} :
       /\ heap' = [heap EXCEPT ![held] =
                     CASE change = "add" -> @ \cup {"mine"}
                       [] change = "discard" -> @ \ {"deployment_safety"}
                       [] change = "clear" -> {}]
       /\ last_call' = [fn |-> "caller_mutates", kwargs |-> << >>,
                        returned |-> S(change), raised |-> None]
  /\ UNCHANGED <<ctx, gateVars, handlerVars, concurrentVars, graphVars, orchestrator, held>>

ProviderNext ==
  \/ ApplyDeploymentSafety
  \/ ApplyContainerSettings
  \/ ApplyInfrastructureSettings
  \/ ApplyCicdSettings
  \/ ApplyMonitoringSettings
  \/ ApplyAll
  \/ GetApplied
  \/ CallerMutates

SpecProvider == ProviderInit /\ [][ProviderNext]_vars

----------------------------------------------------------------------------
(* Properties of the capability provider (SpecProvider) *)

ApplyFns ==
  {"apply_deployment_safety", "apply_container_settings",
   "apply_infrastructure_settings", "apply_cicd_settings",
   "apply_monitoring_settings"}

\* the capability an apply method applies, and the function that configures it
CapabilityOf(fn) ==
  CASE fn = "apply_deployment_safety" -> "deployment_safety"
    [] fn = "apply_container_settings" -> "container_settings"
    [] fn = "apply_infrastructure_settings" -> "infrastructure_settings"
    [] fn = "apply_cicd_settings" -> "cicd_settings"
    [] fn = "apply_monitoring_settings" -> "monitoring_settings"

ConfigureFnOf(capability) ==
  CASE capability = "deployment_safety" -> "configure_deployment_safety"
    [] capability = "container_settings" -> "configure_container_settings"
    [] capability = "infrastructure_settings" -> "configure_infrastructure_settings"
    [] capability = "cicd_settings" -> "configure_cicd_settings"
    [] capability = "monitoring_settings" -> "configure_monitoring_settings"

\* the capability's configure call has returned on o: o holds its settings
Configured(o, capability) ==
  LET fn == ConfigureFnOf(capability)
  IN  IF o.service # None THEN ServiceNameOf(fn) \in DOMAIN o.service.d
      ELSE DOMAIN LegacyTable(o, fn) = DOMAIN DefaultsOf(fn)

\* what get_applied() would return: the members of the provider's set
Applied == heap["_applied"]

\* C29: for a DevOpsCapabilityProvider, after any sequence of apply_* and
\* apply_all calls, get_applied() is exactly the set of capability names
\* whose apply method has completed: it starts empty, never shrinks, is
\* always a subset of the five registered names, contains all five after
\* apply_all, and a name is added only after its configure call returned (an
\* apply that completes adds its own name and no other, one that raises adds
\* none); get_applied() hands out those names, and mutating the set it
\* returned does not change the provider's state.
C29_AppliedIsCompletedApplies ==
  /\ Applied = {}
  /\ [](/\ Applied \subseteq RegisteredCapabilities
        /\ \A capability \in Applied : Configured(orchestrator, capability))
  /\ [][LET fn == last_call'.fn
        IN  /\ Applied \subseteq Applied'
            /\ fn \in ApplyFns /\ last_call'.raised = None =>
                 /\ Applied' = Applied \cup {CapabilityOf(fn)}
                 /\ Configured(orchestrator', CapabilityOf(fn))
            /\ fn \in ApplyFns /\ last_call'.raised # None =>
                 /\ Applied' = Applied
                 /\ orchestrator' = orchestrator
            /\ fn = "apply_all" => Applied' = RegisteredCapabilities
            /\ fn = "get_applied" =>
                 /\ Applied' = Applied
                 /\ heap'[held'] = Applied
            /\ fn = "caller_mutates" => Applied' = Applied]_vars

\* the caller has put a name of its own into the set it got from a provider
\* that applied all five capabilities
C29_Witness ==
  /\ last_call # None
  /\ last_call.fn = "caller_mutates"
  /\ held # "none"
  /\ "mine" \in heap[held]
  /\ Applied = RegisteredCapabilities

----------------------------------------------------------------------------
(* The cached tool graph of tool_dependencies: get_devops_tool_graph and
   reset_devops_tool_graph, over the module globals _devops_tool_graph and
   _config.  A graph object is known by its place in graphs, so two graphs
   built from the same config are still two instances. *)

\* the graphs one run builds at most
MaxGraphs == 3

\* the versions of the YAML config the disk may hold
YamlVersions == {S("v1"), S("v2")}

\* a reference to the i-th graph built
Graph(i) == [t |-> "graph", id |-> i]

\* ToolExecutionGraph(name="devops") filled from the config: a new graph
\* object, with nothing added by a caller
ToolExecutionGraph(config) == [config |-> config, added |-> FALSE]

\* _get_config: the cached config, or the file's content loaded and cached;
\* a load that fails raises and caches nothing
GetConfig(config, file, loads) ==
  IF config # None THEN [config |-> config, raised |-> None]
  ELSE IF loads THEN [config |-> file, raised |-> None]
  ELSE [config |-> None, raised |-> S("OSError")]

\* get_devops_tool_graph without the early return of the cached graph
get_devops_tool_graph_rebuilding(cached, config, built, file, loads) ==
  LET got == GetConfig(config, file, loads)
  IN  IF got.raised # None
      THEN [cached |-> cached, config |-> got.config, graphs |-> built,
            returned |-> None, raised |-> got.raised]
      ELSE [cached |-> Graph(Len(built) + 1), config |-> got.config,
            graphs |-> Append(built, ToolExecutionGraph(got.config)),
            returned |-> Graph(Len(built) + 1), raised |-> None]

\* get_devops_tool_graph: the module globals and the graphs after the call,
\* what it returned and what it raised
get_devops_tool_graph(cached, config, built, file, loads) ==
  IF cached # None
  THEN [cached |-> cached, config |-> config, graphs |-> built,
        returned |-> cached, raised |-> None]
  ELSE LET got == GetConfig(config, file, loads)
       IN  IF got.raised # None
           THEN [cached |-> cached, config |-> got.config, graphs |-> built,
                 returned |-> None, raised |-> got.raised]
           ELSE [cached |-> Graph(Len(built) + 1), config |-> got.config,
                 graphs |-> Append(built, ToolExecutionGraph(got.config)),
                 returned |-> Graph(Len(built) + 1), raised |-> None]

\* reset_devops_tool_graph: _devops_tool_graph = None
reset_devops_tool_graph(cached) == None

ToolGraphInit ==
  /\ ctx = << >>
  /\ NoGate
  /\ NoInvocation
  /\ NoCapabilities
  /\ NoConcurrency
  /\ NoProvider
  /\ _devops_tool_graph = None
  /\ _config = None
  /\ graphs = << >>
  /\ yaml_file \in YamlVersions

GetDevopsToolGraph ==
  /\ _devops_tool_graph # None \/ Len(graphs) < MaxGraphs
  /\ \E loads \in BOOLEAN :
       LET out == get_devops_tool_graph(_devops_tool_graph, _config, graphs,
                                        yaml_file, loads)
       IN  /\ _devops_tool_graph' = out.cached
           /\ _config' = out.config
           /\ graphs' = out.graphs
           /\ last_call' = [fn |-> "get_devops_tool_graph", kwargs |-> << >>,
                            returned |-> out.returned, raised |-> out.raised]
  /\ UNCHANGED <<ctx, gateVars, handlerVars, concurrentVars, providerVars,
                 orchestrator, yaml_file>>

ResetDevopsToolGraph ==
  /\ _devops_tool_graph' = reset_devops_tool_graph(_devops_tool_graph)
  /\ last_call' = [fn |-> "reset_devops_tool_graph", kwargs |-> << >>,
                   returned |-> None, raised |-> None]
  /\ UNCHANGED <<ctx, gateVars, handlerVars, concurrentVars, providerVars,
                 orchestrator, _config, graphs, yaml_file>>

\* the tool configuration on disk changes
YamlFileChanges ==
  /\ \E version \in YamlVersions \ {yaml_file} : yaml_file' = version
  /\ last_call' = [fn |-> "yaml_file_changes", kwargs |-> << >>,
                   returned |-> None, raised |-> None]
  /\ UNCHANGED <<ctx, gateVars, handlerVars, concurrentVars, providerVars,
                 orchestrator, _devops_tool_graph, _config, graphs>>

\* a caller adds a dependency of its own to a graph it was returned
CallerAddsDependency ==
  /\ \E i \in 1..Len(graphs) :
       /\ graphs' = [graphs EXCEPT ![i].added = TRUE]
       /\ last_call' = [fn |-> "add_dependency", kwargs |-> << >>,
                        returned |-> Graph(i), raised |-> None]
  /\ UNCHANGED <<ctx, gateVars, handlerVars, concurrentVars, providerVars,
                 orchestrator, _devops_tool_graph, _config, yaml_file>>

ToolGraphNext ==
  \/ GetDevopsToolGraph
  \/ ResetDevopsToolGraph
  \/ YamlFileChanges
  \/ CallerAddsDependency

SpecToolGraph == ToolGraphInit /\ [][ToolGraphNext]_vars

----------------------------------------------------------------------------
(* Properties of the cached tool graph (SpecToolGraph) *)

\* C30: get_devops_tool_graph builds the graph at most once between resets:
\* every call returns the same cached graph instance until
\* reset_devops_tool_graph is called (and builds nothing), and the first
\* call after a reset that returns builds and caches one new instance, which
\* no caller has touched; only a reset empties the cache, and nothing else
\* builds a graph.
C30_BuiltOncePerReset ==
  [][LET fn == last_call'.fn
     IN  /\ fn = "get_devops_tool_graph" /\ _devops_tool_graph # None =>
              /\ last_call'.returned = _devops_tool_graph
              /\ _devops_tool_graph' = _devops_tool_graph
              /\ graphs' = graphs
         /\ fn = "get_devops_tool_graph" /\ _devops_tool_graph = None =>
              IF last_call'.raised = None
              THEN /\ Len(graphs') = Len(graphs) + 1
                   /\ SubSeq(graphs', 1, Len(graphs)) = graphs
                   /\ ~graphs'[Len(graphs')].added
                   /\ last_call'.returned = Graph(Len(graphs'))
                   /\ _devops_tool_graph' = Graph(Len(graphs'))
              ELSE /\ graphs' = graphs
                   /\ _devops_tool_graph' = None
         /\ fn = "reset_devops_tool_graph" =>
              /\ _devops_tool_graph' = None
              /\ graphs' = graphs
         /\ fn # "get_devops_tool_graph" => Len(graphs') = Len(graphs)
         /\ _devops_tool_graph # None /\ _devops_tool_graph' # _devops_tool_graph =>
              fn = "reset_devops_tool_graph"]_vars

\* the first call after a reset has built a second graph, cached it and
\* returned it, the first one being still in a caller's hands
C30_Witness ==
  /\ graphs # << >>
  /\ graphs[1].added
  /\ last_call # None
  /\ last_call.fn = "get_devops_tool_graph"
  /\ Len(graphs) = 2
  /\ last_call.returned = Graph(2)
  /\ _devops_tool_graph = Graph(2)

====
